---- MODULE Spec2Model ----
(***************************************************************************)
(* Model of the DeviceTree parser orchestrator (src/dts.ts, kept here as   *)
(* src/unnamed/part_003): contexts (DTSCtx), files (DTSFile), the          *)
(* Node / NodeEntry graph, the asynchronous addContext and reparse         *)
(* functions, the editor event handlers and the stable() waiter list.      *)
(*                                                                         *)
(* JavaScript runs one handler at a time; an async function runs           *)
(* synchronously up to its next `await`.  Every action below is therefore  *)
(* one event handler together with everything it runs synchronously, or    *)
(* the resumption of one suspended async function up to its next await.    *)
(*                                                                         *)
(* Objects: a DTSFile is identified by fid (the call that built it), a    *)
(* NodeEntry by <<fid, number>>, a Node by the id of the entry whose       *)
(* parse allocated it.  heapN / heapE are the object heaps.  DTSFile       *)
(* objects are held by value: a DTSFile is only mutated by remove(),       *)
(* inside reset(), when exactly one reference to it exists.                *)
(*                                                                         *)
(* Paths are sequences of name components: <<>> is "/", <<"node">> is      *)
(* "/node/", <<"&foo">> is the path "&foo" of an unresolved reference.     *)
(***************************************************************************)
EXTENDS Integers, Sequences, FiniteSets, TLC

\* ------------------------------------------------------------------ bounds
\* user-level events (edits, focus changes, commands, stable() calls, queries)
MaxEvents == 3
\* reparse calls that may be suspended at the same time
MaxTasks == 2
\* contexts ever created
MaxCtx == 2
\* callers of stable()
MaxWaiters == 2

\* ------------------------------------------------------------ file contents
\* A file's text is the list of the statement heads the scan loop of
\* Parser.parse matches: "root" is `/ {`, "label" is `name:`, "open" is
\* `name {`, "prop" is `name = val` (val "" for a bare `name`), "ref" is
\* `&label {` (name the reference, val the label), "delnode" is
\* `/delete-node/ name` (val the label of a `&label` operand), "close" is `}`,
\* "semi" is `;`, anything else is a token no pattern matches.
Tok(t, name, val) == [t |-> t, name |-> name, val |-> val]

\* board:   / { foo: node { p = "B"; }; };
TextB ==
  << Tok("root", "", ""), Tok("label", "foo", ""), Tok("open", "node", ""),
     Tok("prop", "p", "B"), Tok("semi", "", ""),
     Tok("close", "", ""), Tok("semi", "", ""),
     Tok("close", "", ""), Tok("semi", "", "") >>

\* overlay: / { bar: node { p = "O1"; }; };
TextO1 ==
  << Tok("root", "", ""), Tok("label", "bar", ""), Tok("open", "node", ""),
     Tok("prop", "p", "O1"), Tok("semi", "", ""),
     Tok("close", "", ""), Tok("semi", "", ""),
     Tok("close", "", ""), Tok("semi", "", "") >>

\* overlay: &foo { p = "O2"; }; &bar { r = "O2"; };
TextO2 ==
  << Tok("ref", "&foo", "foo"), Tok("prop", "p", "O2"), Tok("semi", "", ""),
     Tok("close", "", ""), Tok("semi", "", ""),
     Tok("ref", "&bar", "bar"), Tok("prop", "r", "O2"), Tok("semi", "", ""),
     Tok("close", "", ""), Tok("semi", "", "") >>

\* shield:  &foo { p = "S"; };
TextS ==
  << Tok("ref", "&foo", "foo"), Tok("prop", "p", "S"),
     Tok("semi", "", ""), Tok("close", "", ""), Tok("semi", "", "") >>

\* stand-alone file: &bar { q = "D"; }; &bar { };
TextD ==
  << Tok("ref", "&bar", "bar"), Tok("prop", "q", "D"), Tok("semi", "", ""),
     Tok("close", "", ""), Tok("semi", "", ""),
     Tok("ref", "&bar", "bar"), Tok("close", "", ""), Tok("semi", "", "") >>

Uris == {"B", "O1", "O2", "S", "D"}

Text(uri) ==
  CASE uri = "B" -> TextB
    [] uri = "O1" -> TextO1
    [] uri = "O2" -> TextO2
    [] uri = "S" -> TextS
    [] OTHER -> TextD

\* ------------------------------------------------------------------ helpers
Last(s) == s[Len(s)]

Front(s) == SubSeq(s, 1, Len(s) - 1)

SeqToSet(s) == { s[i] : i \in 1..Len(s) }

RECURSIVE FilterSeq(_, _)
FilterSeq(s, keep) ==
  IF s = <<>> THEN <<>>
  ELSE IF Head(s) \in keep THEN <<Head(s)>> \o FilterSeq(Tail(s), keep)
       ELSE FilterSeq(Tail(s), keep)

\* ------------------------------------------------------------- object heaps
NewNode(path) == [path |-> path, entries |-> <<>>, deleted |-> FALSE]

NewEntry(nid, labels, ref, parent, prio) ==
  [node |-> nid, labels |-> labels, props |-> <<>>, ref |-> ref,
   parent |-> parent, prio |-> prio]

\* Identity of a DTSFile object: the context, the number of the reparse call
\* of that context that constructed it (0 for addContext), what constructed
\* it ("parse", or "insertOverlay" / "setBoard" right before the reparse call
\* that follows them) and its position in that call (0 the board file, i the
\* i-th overlay)
Fid(c, gen, by, idx) == << c, gen, by, idx >>

\* new DTSFile(uri, ctx): priority is ctx.fileCount at construction
NewFile(fid, uri, prio) ==
  [fid |-> fid, uri |-> uri, priority |-> prio, dirty |-> TRUE,
   entries |-> <<>>, diags |-> <<>>]

\* registry ctx.nodes: path -> Node, as the list of its keys in insertion order
RegHas(reg, path) == \E i \in 1..Len(reg) : reg[i].path = path

RegGet(reg, path) == reg[CHOOSE i \in 1..Len(reg) : reg[i].path = path].nid

RegPut(reg, path, nid) == Append(reg, [path |-> path, nid |-> nid])

\* Node.hasLabel
hasLabel(hn, he, nid, label) ==
  \E i \in 1..Len(hn[nid].entries) :
     label \in SeqToSet(he[hn[nid].entries[i]].labels)

\* DTSCtx.node(name) for '&label' and for a path; <<>> when there is none
ctxNodeByLabel(reg, hn, he, label) ==
  LET hits == { i \in 1..Len(reg) : hasLabel(hn, he, reg[i].nid, label) }
  IN  IF hits = {} THEN <<>>
      ELSE << reg[CHOOSE i \in hits : \A j \in hits : i <= j].nid >>

ctxNodeByPath(reg, path) ==
  IF RegHas(reg, path) THEN << RegGet(reg, path) >> ELSE <<>>

\* ------------------------------------------------------- Parser.parse (scan)
\* State of one scan: the context's registry and the heaps it works on, the
\* file under construction, the node stack, pending labels, requireSemicolon
\* and the number of entries allocated so far.
ScanInit(reg, hn, he, file) ==
  [reg |-> reg, hn |-> hn, he |-> he, file |-> file, stack |-> <<>>,
   labels |-> <<>>, reqSemi |-> FALSE, n |-> 0]

pushDiag(P, msg) == [P EXCEPT !.file.diags = Append(@, msg)]

\* `name {` : look the node up by its computed path or register a new one,
\* then append a new NodeEntry to it
ScanNodeOpenAt(P, path) ==
  LET eid == << P.file.fid, P.n >>
      found == RegHas(P.reg, path)
      nid == IF found THEN RegGet(P.reg, path) ELSE eid
      hn1 == IF found THEN P.hn ELSE (eid :> NewNode(path)) @@ P.hn
      entry == NewEntry(nid, P.labels, "",
                        IF P.stack # <<>> THEN << Last(P.stack) >> ELSE <<>>,
                        P.file.priority)
  IN  [P EXCEPT !.reg = IF found THEN @ ELSE RegPut(@, path, nid),
                !.hn = [hn1 EXCEPT ![nid].entries = Append(@, eid)],
                !.he = (eid :> entry) @@ @,
                !.file.entries = Append(@, eid),
                !.stack = Append(@, eid),
                !.labels = <<>>,
                !.n = @ + 1]

\* new Node(name, addr, parent): the path of a node is its parent's path and
\* its name, or the root path when it has no parent
ScanNodeOpen(P, tok) ==
  ScanNodeOpenAt(P, IF P.stack # <<>>
                    THEN Append(P.hn[P.he[Last(P.stack)].node].path, tok.name)
                    ELSE <<>>)

\* `name = value;` or `name;`
ScanProperty(P, tok) ==
  LET P1 == [P EXCEPT !.reqSemi = TRUE]
  IN  IF P.stack # <<>>
      THEN [P1 EXCEPT !.he[Last(P.stack)].props =
                          Append(@, [name |-> tok.name, val |-> tok.val]),
                      !.labels = <<>>]
      ELSE [pushDiag(P1, "Property outside of node context")
              EXCEPT !.labels = IF tok.val # "" THEN <<>> ELSE @]

\* `&label {` : resolve the label in the registry; an unknown label gets a new
\* Node that is not put into the registry
ScanRefOpenHit(P, ref, path, hit) ==
  LET eid == << P.file.fid, P.n >>
      found == hit # <<>>
      nid == IF found THEN hit[1] ELSE eid
      P1 == IF found THEN P ELSE pushDiag(P, "Unknown label")
      hn1 == IF found THEN P.hn ELSE (eid :> NewNode(path)) @@ P.hn
      entry == NewEntry(nid, P.labels, ref, <<>>, P.file.priority)
  IN  [P1 EXCEPT !.hn = [hn1 EXCEPT ![nid].entries = Append(@, eid)],
                 !.he = (eid :> entry) @@ @,
                 !.file.entries = Append(@, eid),
                 !.stack = Append(@, eid),
                 !.labels = <<>>,
                 !.n = @ + 1]

ScanRefOpen(P, tok) ==
  ScanRefOpenHit(P, tok.name, << tok.name >>,
                 ctxNodeByLabel(P.reg, P.hn, P.he, tok.val))

\* labels followed by something that is neither a node nor a property
ScanDropLabels(P) ==
  IF P.labels # <<>>
  THEN [pushDiag(P, "Expected node or property after label")
          EXCEPT !.labels = <<>>]
  ELSE P

\* a delete-node that takes the node out of the registry
ScanDeleteNodeHitRemove(P, hit) ==
  LET P1 == [P EXCEPT !.reqSemi = TRUE]
      keep(r) == r.nid # hit[1]
  IN  IF hit # <<>>
      THEN [P1 EXCEPT !.hn[hit[1]].deleted = TRUE, !.reg = SelectSeq(@, keep)]
      ELSE pushDiag(P1, "Unknown node")

\* `/delete-node/ &label` or `/delete-node/ name`
ScanDeleteNodeHit(P, hit) ==
  LET P1 == [P EXCEPT !.reqSemi = TRUE]
  IN  IF hit # <<>>
      THEN [P1 EXCEPT !.hn[hit[1]].deleted = TRUE]
      ELSE pushDiag(P1, "Unknown node")

ScanDeleteNode(P, tok) ==
  ScanDeleteNodeHit(P,
     IF tok.val # ""
     THEN ctxNodeByLabel(P.reg, P.hn, P.he, tok.val)
     ELSE IF P.stack = <<>> THEN <<>>
     ELSE ctxNodeByPath(P.reg,
             Append(P.hn[P.he[Last(P.stack)].node].path, tok.name)))

\* `/ {` : the entry goes to the root node, which is created when the
\* registry has none
ScanRootAt(P, root) ==
  LET eid == << P.file.fid, P.n >>
      found == RegHas(P.reg, root)
      nid == IF found THEN RegGet(P.reg, root) ELSE eid
      hn1 == IF found THEN P.hn ELSE (eid :> NewNode(root)) @@ P.hn
      entry == NewEntry(nid, <<>>, "", <<>>, P.file.priority)
  IN  [P EXCEPT !.reg = IF found THEN @ ELSE RegPut(@, root, nid),
                !.hn = [hn1 EXCEPT ![nid].entries = Append(@, eid)],
                !.he = (eid :> entry) @@ @,
                !.file.entries = Append(@, eid),
                !.stack = Append(@, eid),
                !.n = @ + 1]

ScanRoot(P) == ScanRootAt(P, <<>>)

\* a closing brace that leaves the node open
ScanCloseKeep(P) == [P EXCEPT !.reqSemi = TRUE]

\* `}`
ScanClose(P) ==
  LET P1 == [P EXCEPT !.reqSemi = TRUE]
  IN  IF P.stack # <<>>
      THEN [P1 EXCEPT !.stack = Front(@)]
      ELSE pushDiag(P1, "Unexpected closing bracket")

\* one iteration of the scan loop on a token that is not consumed by the
\* requireSemicolon branch
ScanToken(P, tok) ==
  CASE tok.t = "label" -> [P EXCEPT !.labels = Append(@, tok.name)]
    [] tok.t = "open" -> ScanNodeOpen(P, tok)
    [] tok.t = "prop" -> ScanProperty(P, tok)
    [] tok.t = "ref" -> ScanRefOpen(P, tok)
    [] tok.t = "delnode" -> ScanDeleteNode(ScanDropLabels(P), tok)
    [] tok.t = "root" -> ScanRoot(ScanDropLabels(P))
    [] tok.t = "close" -> ScanClose(ScanDropLabels(P))
    [] OTHER -> pushDiag(ScanDropLabels(P), "Unexpected token")

RECURSIVE Scan(_, _)
Scan(P, toks) ==
  IF toks = <<>>
  THEN LET P1 == IF P.stack # <<>> THEN pushDiag(P, "Unterminated node") ELSE P
       IN  IF P.reqSemi THEN pushDiag(P1, "Expected semicolon") ELSE P1
  ELSE IF P.reqSemi
       THEN IF Head(toks).t = "semi"
            THEN Scan([P EXCEPT !.reqSemi = FALSE], Tail(toks))
            ELSE Scan(pushDiag([P EXCEPT !.reqSemi = FALSE], "Missing semicolon"),
                      toks)
       ELSE Scan(ScanToken(P, Head(toks)), Tail(toks))

\* ------------------------------------------------------------ Node queries
\* Node.sortedEntries: Array.prototype.sort (stable) with the comparator
\* 1000000 * (a.file.priority - b.file.priority) + (a.number - b.number)
EntryCmp(he, a, b) == 1000000 * (he[a].prio - he[b].prio) + (a[2] - b[2])

RECURSIVE InsertSorted(_, _, _)
InsertSorted(he, s, e) ==
  IF s = <<>> THEN << e >>
  ELSE IF EntryCmp(he, Last(s), e) <= 0 THEN Append(s, e)
       ELSE Append(InsertSorted(he, Front(s), e), Last(s))

RECURSIVE sortedEntries(_, _)
sortedEntries(he, s) ==
  IF s = <<>> THEN <<>>
  ELSE InsertSorted(he, sortedEntries(he, Front(s)), Last(s))

\* all properties of the entries in the given order
RECURSIVE PropsOf(_, _)
PropsOf(he, s) ==
  IF s = <<>> THEN <<>> ELSE he[Head(s)].props \o PropsOf(he, Tail(s))

\* Node.property(name) on the unique view: props[p.name] = p over the sorted
\* entries, so the last declaration in that order is the one kept;
\* <<>> when the node has no such property
property(hn, he, nid, name) ==
  LET ps == PropsOf(he, sortedEntries(he, hn[nid].entries))
      hits == { i \in 1..Len(ps) : ps[i].name = name }
  IN  IF hits = {} THEN <<>>
      ELSE << ps[CHOOSE i \in hits : \A j \in hits : j <= i].val >>

\* `props[p.name] = p` for the properties of a list in their order: a name
\* keeps the place of its first declaration and holds its last one
RECURSIVE KeepFirst(_, _)
KeepFirst(props, ps) ==
  IF ps = <<>> THEN props
  ELSE KeepFirst(IF \E i \in 1..Len(props) : props[i].name = Head(ps).name
                 THEN props ELSE Append(props, Head(ps)),
                 Tail(ps))

RECURSIVE AssignAll(_, _)
AssignAll(props, ps) ==
  IF ps = <<>> THEN props
  ELSE LET at == { i \in 1..Len(props) : props[i].name = Head(ps).name }
       IN  AssignAll(IF at = {} THEN Append(props, Head(ps))
                     ELSE [props EXCEPT ![CHOOSE i \in at : TRUE] = Head(ps)],
                     Tail(ps))

\* a uniqueProperties that keeps the first declaration of a name
uniquePropertiesFirst(hn, he, nid) ==
  KeepFirst(<<>>, PropsOf(he, sortedEntries(he, hn[nid].entries)))

\* Node.uniqueProperties: Object.values of the object built over the sorted
\* entries
uniqueProperties(hn, he, nid) ==
  AssignAll(<<>>, PropsOf(he, sortedEntries(he, hn[nid].entries)))

\* ------------------------------------------------- ParserState (the cursor)
\* The preprocessor hands the parser the lines of the file.  A line is the
\* sequence of its characters; every pattern is matched against the rest of
\* the current line.  The cursor fields of a scan record: lines, line
\* (1-based, Len(lines) + 1 at the end of the file), col (characters of the
\* line already consumed), prev (prevRange: where the last match began and its
\* length), acts (the quick fixes pushed so far).
\* A text is written as a list of pieces: a piece is a word of this table or
\* a single character.
Chars(str) ==
  CASE str = "/*" -> << "/", "*" >>
    [] str = "*/" -> << "*", "/" >>
    [] str = "//" -> << "/", "/" >>
    [] str = "/dts-v" -> << "/", "d", "t", "s", "-", "v" >>
    [] str = "/dts-v1/" -> << "/", "d", "t", "s", "-", "v", "1", "/" >>
    [] str = "/delete-node/" ->
         << "/", "d", "e", "l", "e", "t", "e", "-", "n", "o", "d", "e", "/" >>
    [] str = "/delete-property/" ->
         << "/", "d", "e", "l", "e", "t", "e", "-", "p", "r", "o", "p", "e",
            "r", "t", "y", "/" >>
    [] str = "#address-cells" ->
         << "#", "a", "d", "d", "r", "e", "s", "s", "-", "c", "e", "l", "l", "s" >>
    [] str = "#size-cells" -> << "#", "s", "i", "z", "e", "-", "c", "e", "l", "l", "s" >>
    [] str = "a-map" -> << "a", "-", "m", "a", "p" >>
    [] str = "foo" -> << "f", "o", "o" >>
    [] str = "bar" -> << "b", "a", "r" >>
    [] str = "node" -> << "n", "o", "d", "e" >>
    [] str = "sub" -> << "s", "u", "b" >>
    [] str = "reg" -> << "r", "e", "g" >>
    [] str = "status" -> << "s", "t", "a", "t", "u", "s" >>
    [] str = "disabled" -> << "d", "i", "s", "a", "b", "l", "e", "d" >>
    [] str = "bad" -> << "b", "a", "d" >>
    [] str = "ab" -> << "a", "b" >>
    [] str = "10" -> << "1", "0" >>
    [] str = "010" -> << "0", "1", "0" >>
    [] str = "0x10" -> << "0", "x", "1", "0" >>
    [] str = "0x20" -> << "0", "x", "2", "0" >>
    [] str = "/node@10/" -> << "/", "n", "o", "d", "e", "@", "1", "0", "/" >>
    [] str = "/node/" -> << "/", "n", "o", "d", "e", "/" >>
    [] OTHER -> << str >>

RECURSIVE Ln(_)
Ln(pieces) ==
  IF pieces = <<>> THEN <<>> ELSE Chars(Head(pieces)) \o Ln(Tail(pieces))

Digit == {"0", "1", "2", "3", "4", "5", "6", "7", "8", "9"}

HexDigit == Digit \cup {"a", "b", "c", "d", "e", "f", "A", "B", "C", "D", "E", "F"}

Letter ==
  {"a", "b", "c", "d", "e", "f", "g", "h", "i", "j", "k", "l", "m", "n", "o",
   "p", "q", "r", "s", "t", "u", "v", "w", "x", "y", "z",
   "A", "B", "C", "D", "E", "F", "G", "H", "I", "J", "K", "L", "M", "N", "O",
   "P", "Q", "R", "S", "T", "U", "V", "W", "X", "Y", "Z"}

\* \w
WordChar == Letter \cup Digit \cup {"_"}

\* \s inside a line
SpaceChar == {" ", "\t"}

\* [\w-]
LabelChar == WordChar \cup {"-"}

\* [#?\w,.+-]
NameChar == WordChar \cup {"#", "?", ",", ".", "+", "-"}

\* [#?\w,._+-]
PropNameChar == NameChar

\* [\w,.+/@-]
NodeRefChar == WordChar \cup {",", ".", "+", "/", "@", "-"}

\* [\w@/-] and [\w/@-]
PathChar == WordChar \cup {"@", "/", "-"}

\* [#-\w]: a class escape cannot end a range, so this is `#`, `-` and \w
TokenChar == WordChar \cup {"#", "-"}

\* length of the longest prefix of s made of characters of C
RECURSIVE Run(_, _)
Run(s, C) == IF s = <<>> \/ Head(s) \notin C THEN 0 ELSE 1 + Run(Tail(s), C)

StartsWith(s, w) == Len(s) >= Len(w) /\ SubSeq(s, 1, Len(w)) = w

Drop(s, n) == SubSeq(s, n + 1, Len(s))

\* smallest i >= from with s[i] = ch, 0 when there is none
IndexFrom(s, ch, from) ==
  LET hits == { i \in from..Len(s) : s[i] = ch }
  IN  IF hits = {} THEN 0 ELSE CHOOSE i \in hits : \A j \in hits : i <= j

\* ParserState.eof
Eof(P) == P.line > Len(P.lines)

\* ParserState.next, and nothing at the end of the file (peek gives undefined)
Rest(P) == IF Eof(P) THEN <<>> ELSE Drop(P.lines[P.line], P.col)

\* ParserState.freeze / reset
Freeze(P) == [line |-> P.line, col |-> P.col]

Reset(P, o) == [P EXCEPT !.line = o.line, !.col = o.col]

\* the cursor moves over n characters of the line and on to the next line
\* when the line is used up
Forward(P, n) ==
  IF P.col + n = Len(P.lines[P.line])
  THEN [P EXCEPT !.col = 0, !.line = @ + 1]
  ELSE [P EXCEPT !.col = @ + n]

\* ParserState.match on a pattern that matches the next n >= 1 characters
Take(P, n) ==
  Forward([P EXCEPT !.prev = [line |-> P.line, col |-> P.col, len |-> n]], n)

\* ParserState.skipWhitespace: `while (this.match(/^\s+/));` with prevRange
\* put back; the caller tests eof
RECURSIVE SkipWs(_)
SkipWs(P) ==
  LET n == Run(Rest(P), SpaceChar)
  IN  IF n = 0 THEN P ELSE SkipWs(Forward(P, n))

\* the token pattern /^[#-\w]+|./
TokenLen(s) == LET r == Run(s, TokenChar) IN IF r > 0 THEN r ELSE 1

\* a skipToken that gives up the rest of the file
SkipTokenToEnd(P) == [P EXCEPT !.line = Len(P.lines) + 1]

\* ParserState.skipToken: with nothing left to match the cursor is put at the
\* end of the file
SkipToken(P) ==
  IF Rest(P) = <<>>
  THEN [P EXCEPT !.line = Len(P.lines) + 1]
  ELSE Take(P, TokenLen(Rest(P)))

\* ParserState.location() of the last match: its end, where an insert quick
\* fix puts its text
PrevEnd(P) == [line |-> P.prev.line, col |-> P.prev.col + P.prev.len]

\* pushAction / pushInsertAction / pushDeleteAction
pushAction(P, title, text, at) ==
  [P EXCEPT !.acts = Append(@, [title |-> title, text |-> text, at |-> at])]

\* -------------------------------------------------------- PropertyValue.match
\* Every matcher gives [ok, P, v]: whether it matched, the cursor after it
\* and the value.
NoMatch(P) == [ok |-> FALSE, P |-> P, v |-> <<>>]

Matched(P, v) == [ok |-> TRUE, P |-> P, v |-> v]

\* /^(0x[\da-fA-F]+|\d+)/ : the length of the match, 0 for none.  With
\* `bounded` the pattern ends in \b: the character after the number is not a
\* word character (and no shorter match can end at a word boundary).
NumberLen(s, bounded) ==
  LET hex == IF StartsWith(s, << "0", "x" >>) THEN Run(Drop(s, 2), HexDigit) ELSE 0
      dec == Run(s, Digit)
      edge(n) == n = Len(s) \/ s[n + 1] \notin WordChar
  IN  IF bounded
      THEN IF hex > 0 /\ edge(2 + hex) THEN 2 + hex
           ELSE IF dec > 0 /\ edge(dec) THEN dec ELSE 0
      ELSE IF hex > 0 THEN 2 + hex ELSE dec

\* the value of a digit in a numeral
DigitVal(ch) ==
  CASE ch \in {"a", "A"} -> 10 [] ch \in {"b", "B"} -> 11 [] ch \in {"c", "C"} -> 12
    [] ch \in {"d", "D"} -> 13 [] ch \in {"e", "E"} -> 14 [] ch \in {"f", "F"} -> 15
    [] ch = "0" -> 0 [] ch = "1" -> 1 [] ch = "2" -> 2 [] ch = "3" -> 3
    [] ch = "4" -> 4 [] ch = "5" -> 5 [] ch = "6" -> 6 [] ch = "7" -> 7
    [] ch = "8" -> 8 [] OTHER -> 9

\* Number.parseInt on a matched number: base 16 behind `0x`, else base 10
RECURSIVE Numeral(_, _)
Numeral(s, base) ==
  IF s = <<>> THEN 0 ELSE Numeral(Front(s), base) * base + DigitVal(Last(s))

parseInt(text) ==
  IF StartsWith(text, << "0", "x" >>) THEN Numeral(Drop(text, 2), 16)
  ELSE Numeral(text, 10)

\* IntValue.match
IntValueMatch(P) ==
  LET n == NumberLen(Rest(P), TRUE)
      text == SubSeq(Rest(P), 1, n)
  IN  IF n = 0 THEN NoMatch(P)
      ELSE Matched(Take(P, n),
                   [k |-> "int", val |-> parseInt(text),
                    hex |-> StartsWith(text, << "0", "x" >>)])

\* StringValue.match: /^"(.*?)"/
StringValueMatch(P) ==
  LET s == Rest(P)
      q == IF StartsWith(s, << "\"" >>) THEN IndexFrom(s, "\"", 2) ELSE 0
  IN  IF q = 0 THEN NoMatch(P)
      ELSE Matched(Take(P, q), [k |-> "string", val |-> SubSeq(s, 2, q - 1)])

\* PHandle.match: /^&\{([\w/@-]+)\}/, /^&[\w-]+/, /^"(.+?)"/, /^&/
PHandleMatch(P) ==
  LET s == Rest(P)
      amp == StartsWith(s, << "&" >>)
      pathLen == IF StartsWith(s, << "&", "{" >>) THEN Run(Drop(s, 2), PathChar) ELSE 0
      isPath == pathLen > 0 /\ Len(s) >= pathLen + 3 /\ s[pathLen + 3] = "}"
      refLen == IF amp THEN Run(Drop(s, 1), LabelChar) ELSE 0
      q == IF StartsWith(s, << "\"" >>) THEN IndexFrom(s, "\"", 3) ELSE 0
      ph(kind, val) == [k |-> "phandle", kind |-> kind, val |-> val]
  IN  IF isPath
      THEN Matched(Take(P, pathLen + 3), ph("pathRef", SubSeq(s, 3, pathLen + 2)))
      ELSE IF refLen > 0
      THEN Matched(Take(P, refLen + 1), ph("ref", SubSeq(s, 1, refLen + 1)))
      ELSE IF q > 0
      THEN Matched(Take(P, q), ph("string", SubSeq(s, 2, q - 1)))
      ELSE IF amp
      THEN Matched(Take(P, 1), ph("invalid", << "&" >>))
      ELSE NoMatch(P)

\* eval(text) on the text of an expression: numbers, `+` (unary and binary)
\* and parentheses, the tokens the texts scanned here are written with.  Two
\* adjacent plus signs are the token `++`, which has no operand to work on.
RECURSIVE Tokenize(_)
Tokenize(s) ==
  LET tok(t, v) == [t |-> t, v |-> v]
      n == Run(s, Digit)
  IN  IF s = <<>> THEN <<>>
      ELSE IF Head(s) \in SpaceChar THEN Tokenize(Tail(s))
      ELSE IF n > 0
      THEN << tok("num", Numeral(SubSeq(s, 1, n), 10)) >> \o Tokenize(Drop(s, n))
      ELSE IF StartsWith(s, << "+", "+" >>)
      THEN << tok("++", 0) >> \o Tokenize(Drop(s, 2))
      ELSE << tok(Head(s), 0) >> \o Tokenize(Tail(s))

\* the evaluation of a prefix of the tokens: [ok, v, rest]
EvalFail == [ok |-> FALSE, v |-> 0, rest |-> <<>>]

RECURSIVE EvalUnary(_)
RECURSIVE EvalMore(_, _)
RECURSIVE EvalSum(_)
EvalUnary(ts) ==
  IF ts = <<>> THEN EvalFail
  ELSE CASE Head(ts).t = "num" -> [ok |-> TRUE, v |-> Head(ts).v, rest |-> Tail(ts)]
         [] Head(ts).t = "+" -> EvalUnary(Tail(ts))
         [] Head(ts).t = "(" ->
              LET r == EvalSum(Tail(ts))
              IN  IF r.ok /\ r.rest # <<>> /\ Head(r.rest).t = ")"
                  THEN [r EXCEPT !.rest = Tail(@)]
                  ELSE EvalFail
         [] OTHER -> EvalFail

EvalMore(acc, ts) ==
  IF ts # <<>> /\ Head(ts).t = "+"
  THEN LET u == EvalUnary(Tail(ts))
       IN  IF u.ok THEN EvalMore(acc + u.v, u.rest) ELSE EvalFail
  ELSE [ok |-> TRUE, v |-> acc, rest |-> ts]

EvalSum(ts) ==
  LET u == EvalUnary(ts)
  IN  IF u.ok THEN EvalMore(u.v, u.rest) ELSE EvalFail

\* << value >>, or <<>> when eval throws
eval(text) ==
  LET r == EvalSum(Tokenize(text))
  IN  IF r.ok /\ r.rest = <<>> THEN << r.v >> ELSE <<>>

\* the characters an expression is written with, parentheses apart
ExprChar ==
  {"|", "&", "~", "^", "<", ">", "!", "=", "+", "/", "*", "-", "."} \cup SpaceChar \cup Digit

\* the operators, numbers and blanks in front of the next parenthesis (the
\* texts scanned here hold no character literal 'c')
RECURSIVE ExprRun(_)
ExprRun(s) ==
  LET hex == IF StartsWith(s, << "0", "x" >>) THEN Run(Drop(s, 2), HexDigit) ELSE 0
  IN  IF s = <<>> THEN 0
      ELSE IF hex > 0 THEN 2 + hex + ExprRun(Drop(s, 2 + hex))
      ELSE IF Head(s) \in ExprChar THEN 1 + ExprRun(Tail(s))
      ELSE 0

\* the pattern of the loop of Expression.match: the length of its match, 0
\* for none
ExprPartLen(s) ==
  LET n == ExprRun(s)
  IN  IF Len(s) > n /\ s[n + 1] \in {"(", ")"} THEN n + 1 ELSE 0

\* Expression.match, the loop over the parentheses: [P, text]
RECURSIVE ExprParts(_, _, _)
ExprParts(P, level, text) ==
  LET s == Rest(P)
      n == ExprPartLen(s)
      part == SubSeq(s, 1, n)
  IN  IF level = 0 THEN [P |-> P, text |-> text]
      ELSE IF n = 0
      THEN [P |-> pushDiag(P, "Unterminated expression"), text |-> text]
      ELSE ExprParts(SkipWs(Take(P, n)),
                     IF Last(part) = "(" THEN level + 1 ELSE level - 1,
                     text \o part)

\* Expression.match, the end: R is what the loop read and v what eval gave.
\* An expression whose text eval throws on is reported and the match gives
\* undefined, with the cursor behind what was read
ExprResult(R, v) ==
  IF v # <<>> THEN Matched(R.P, [k |-> "expr", val |-> v[1]])
  ELSE NoMatch(pushDiag(R.P, "Unable to evaluate expression"))

ExprEval(R) == ExprResult(R, eval(R.text))

\* Expression.match
ExpressionMatch(P) ==
  IF ~ StartsWith(Rest(P), << "(" >>) THEN NoMatch(P)
  ELSE ExprEval(ExprParts(Take(P, 1), 1, << "(" >>))

\* /^([+|!^-]|&&|<<|>>|==)/
UnbracedLen(s) ==
  IF s # <<>> /\ Head(s) \in {"+", "|", "!", "^", "-"} THEN 1
  ELSE IF \E w \in {<< "&", "&" >>, << "<", "<" >>, << ">", ">" >>, << "=", "=" >>} :
             StartsWith(s, w)
       THEN 2 ELSE 0

\* ArrayValue.match, the recovery loop after a cell nothing matches:
\* tokens are skipped up to a closing bracket, a semicolon or the start of
\* something new
RECURSIVE ArrayRecover(_, _, _)
ArrayRecover(P, startOfError, endOfError) ==
  LET W == SkipWs(P)
      c == Head(Rest(W))
  IN  IF Eof(W) THEN W
      ELSE IF c \in {"=", "<", "{", "}"}
      THEN pushDiag(Reset(Take(W, 1), startOfError), "Unterminated expression")
      ELSE IF c = ">"
      THEN pushDiag(Take(W, 1), "Syntax error")
      ELSE IF c = ";"
      THEN pushDiag(Reset(Take(W, 1), endOfError), "Unterminated expression")
      ELSE LET T == SkipToken(W) IN ArrayRecover(T, startOfError, Freeze(T))

\* ArrayValue.match, a cell none of the three matchers takes; X is the cursor
\* after the matchers have been tried
RECURSIVE ArrayCells(_, _)
ArrayCellsRest(X, cells) ==
  IF UnbracedLen(Rest(X)) > 0
  THEN ArrayCells(pushDiag(Take(X, UnbracedLen(Rest(X))),
                           "Expression without a surrounding parenthesis"),
                  cells)
  ELSE Matched(ArrayRecover(SkipToken(X), Freeze(X), Freeze(SkipToken(X))),
               [k |-> "array", val |-> cells])

\* ArrayValue.match, a cell that is neither a number nor a phandle; ex is
\* what Expression.match gave
ArrayCellsExpr(ex, cells) ==
  IF ex.ok THEN ArrayCells(ex.P, Append(cells, ex.v)) ELSE ArrayCellsRest(ex.P, cells)

\* ArrayValue.match, the loop over the cells after `<`
ArrayCells(P, cells) ==
  LET W == SkipWs(P)
      s == Rest(W)
      int == IntValueMatch(W)
      ph == PHandleMatch(W)
      done(Q, cs) == Matched(Q, [k |-> "array", val |-> cs])
  IN  IF Eof(W) THEN done(W, cells)
      ELSE IF Head(s) = ">" THEN done(Take(W, 1), cells)
      ELSE IF int.ok THEN ArrayCells(int.P, Append(cells, int.v))
      ELSE IF ph.ok THEN ArrayCells(ph.P, Append(cells, ph.v))
      ELSE ArrayCellsExpr(ExpressionMatch(W), cells)

ArrayValueMatch(P) ==
  IF StartsWith(Rest(P), << "<" >>) THEN ArrayCells(Take(P, 1), <<>>) ELSE NoMatch(P)

\* BytestringValue.match: /^\[/, then /^\s*([\da-fA-F]{2})/ as often as it
\* matches, then /^\s*]/
RECURSIVE ByteCells(_, _)
ByteCells(P, bytes) ==
  LET s == Rest(P)
      w == Run(s, SpaceChar)
      t == Drop(s, w)
  IN  IF Len(t) >= 2 /\ t[1] \in HexDigit /\ t[2] \in HexDigit
      THEN ByteCells(Take(P, w + 2), Append(bytes, Numeral(SubSeq(t, 1, 2), 16)))
      ELSE LET v == [k |-> "bytes", val |-> bytes]
           IN  IF StartsWith(t, << "]" >>)
               THEN Matched(Take(P, w + 1), v)
               ELSE Matched(pushAction(pushDiag(P, "Missing terminating ]"),
                                       "Add terminating ]", << " ", "]" >>, PrevEnd(P)),
                            v)

BytestringValueMatch(P) ==
  IF StartsWith(Rest(P), << "[" >>) THEN ByteCells(Take(P, 1), <<>>) ELSE NoMatch(P)

\* parsePropValue: the loop over the values of a property.  `missing` is
\* missingComma (<<>> for unset); the result is [P, elems].
RECURSIVE PropValues(_, _, _)
PropValues(P, elems, missing) ==
  LET W == SkipWs(P)
      end(Q, es) == [P |-> Q, elems |-> es]
      atEnd == end(W, IF elems = <<>> THEN << [k |-> "bool", val |-> TRUE] >> ELSE elems)
  IN  IF Eof(W) THEN atEnd
      ELSE IF Head(Rest(W)) = ";" THEN atEnd
      ELSE
        LET W1 == IF missing # <<>>
                  THEN pushAction(pushDiag(W, "Expected comma between property values"),
                                  "Separate values by comma", << "," >>, missing[1])
                  ELSE W
            comma == StartsWith(Rest(W1), << "," >>)
            W2 == IF elems = <<>> THEN W1
                  ELSE SkipWs(IF comma THEN Take(W1, 1) ELSE W1)
            miss == IF elems # <<>> /\ ~ comma THEN << PrevEnd(W1) >> ELSE <<>>
            arr == ArrayValueMatch(W2)
            str == StringValueMatch(W2)
            byt == BytestringValueMatch(W2)
            ph == PHandleMatch(W2)
            num == NumberLen(Rest(W2), FALSE)
        IN  IF arr.ok THEN PropValues(arr.P, Append(elems, arr.v), miss)
            ELSE IF str.ok THEN PropValues(str.P, Append(elems, str.v), miss)
            ELSE IF byt.ok THEN PropValues(byt.P, Append(elems, byt.v), miss)
            ELSE IF ph.ok THEN PropValues(ph.P, Append(elems, ph.v), miss)
            ELSE IF num > 0
            THEN end(pushAction(pushDiag(Take(W2, num),
                                         "Missing < > brackets around number"),
                                "Add brackets",
                                << "<", " " >> \o SubSeq(Rest(W2), 1, num) \o << " ", ">" >>,
                                [line |-> W2.line, col |-> W2.col, len |-> num]),
                     elems)
            ELSE end(W2, elems)

\* a parsePropValue that gives the flag value for every empty list
parsePropValueFlag(P) ==
  LET V == PropValues(P, <<>>, <<>>)
  IN  IF V.elems = <<>> THEN [V EXCEPT !.elems = << [k |-> "bool", val |-> TRUE] >>] ELSE V

parsePropValue(P) == PropValues(P, <<>>, <<>>)

\* ------------------------------------------------------------------ Property
\* The typed getters of Property on a value list.  A getter gives Absent
\* (undefined) or Present(v).
Absent == [absent |-> TRUE]

Present(v) == [absent |-> FALSE, val |-> v]

\* `instanceof IntValue` (Expression extends IntValue) and `instanceof PHandle`
IsInt(c) == c.k \in {"int", "expr"}

IsPHandle(c) == c.k = "phandle"

AllOf(cells, Is(_)) == \A i \in 1..Len(cells) : Is(cells[i])

IsArray(v) == v.k = "array"

IsIntArray(v) == v.k = "array" /\ AllOf(v.val, IsInt)

IsPHandleArray(v) == v.k = "array" /\ AllOf(v.val, IsPHandle)

IsString(v) == v.k = "string"

Vals(cells) == [i \in 1..Len(cells) |-> cells[i].val]

\* the getters boolean ... stringArray
PropertyGet(get, value) ==
  LET one(Is(_)) == Len(value) = 1 /\ Is(value[1])
      cell(Is(_)) == one(IsArray) /\ Len(value[1].val) = 1 /\ Is(value[1].val[1])
  IN  CASE get = "boolean" ->
             IF Len(value) = 1 /\ value[1].k = "bool" THEN Present(TRUE) ELSE Absent
        [] get = "number" ->
             IF cell(IsInt) THEN Present(value[1].val[1].val) ELSE Absent
        [] get = "string" ->
             IF one(IsString) THEN Present(value[1].val) ELSE Absent
        [] get = "pHandle" ->
             IF cell(IsPHandle) THEN Present(value[1].val[1])
             ELSE IF one(IsPHandle) THEN Present(value[1])
             ELSE Absent
        [] get = "bytestring" ->
             IF Len(value) = 1 /\ value[1].k = "bytes" THEN Present(value[1]) ELSE Absent
        [] get = "array" ->
             IF one(IsIntArray) THEN Present(Vals(value[1].val)) ELSE Absent
        [] get = "arrays" ->
             IF AllOf(value, IsIntArray)
             THEN Present([i \in 1..Len(value) |-> Vals(value[i].val)])
             ELSE Absent
        [] get = "pHandles" ->
             IF one(IsPHandleArray) THEN Present(value[1].val)
             ELSE IF AllOf(value, IsPHandle) THEN Present(value)
             ELSE Absent
        [] get = "pHandleArray" ->
             IF AllOf(value, IsArray) THEN Present(value) ELSE Absent
        [] OTHER ->
             IF AllOf(value, IsString) THEN Present(Vals(value)) ELSE Absent

\* the index of the first cell that satisfies Is, 0 for none (findIndex)
FindIndex(cells, Is(_)) ==
  LET hits == { i \in 1..Len(cells) : Is(cells[i]) }
  IN  IF hits = {} THEN 0 ELSE CHOOSE i \in hits : \A j \in hits : i <= j

\* Property.entries: the loop over one array, from its cell i + 1 on
RECURSIVE EntriesLoop(_, _, _)
EntriesLoop(cells, i, acc) ==
  LET target == cells[i + 1]
      next == FindIndex(Drop(cells, i + 1), IsPHandle)
      count == IF next = 0 THEN Len(cells) - i - 1 ELSE next - 1
      cs == SubSeq(cells, i + 2, i + 1 + count)
  IN  IF i >= Len(cells) THEN acc
      ELSE IF ~ IsPHandle(target) THEN acc
      ELSE IF ~ AllOf(cs, IsInt) THEN acc
      ELSE EntriesLoop(cells, i + 1 + count, Append(acc, [target |-> target, cells |-> cs]))

\* Property.regs: the loop over one array; acc is [unending, val].  With no
\* address cell and no size cell the loop variable never moves and the loop
\* pushes entries for ever: the getter does not return (Unending).
Unending == [absent |-> FALSE, unending |-> TRUE]

RECURSIVE RegsLoop(_, _, _, _, _)
RegsLoop(cells, i, addrCells, sizeCells, acc) ==
  LET addrs == SubSeq(cells, i + 1, i + addrCells)
      sizes == SubSeq(cells, i + addrCells + 1, i + addrCells + sizeCells)
  IN  IF acc.unending THEN acc
      ELSE IF i + addrCells + sizeCells > Len(cells) THEN acc
      ELSE IF ~ AllOf(addrs, IsInt) THEN acc
      ELSE IF ~ AllOf(sizes, IsInt) THEN acc
      ELSE IF addrCells + sizeCells = 0 THEN [acc EXCEPT !.unending = TRUE]
      ELSE RegsLoop(cells, i + addrCells + sizeCells, addrCells, sizeCells,
                    [acc EXCEPT !.val = Append(@, [addrs |-> addrs, sizes |-> sizes])])

\* name.endsWith('-map')
EndsWithMap(name) ==
  Len(name) >= 4 /\ SubSeq(name, Len(name) - 3, Len(name)) = << "-", "m", "a", "p" >>

\* Property.nexusMap: the loop over one array
RECURSIVE NexusLoop(_, _, _, _)
NexusLoop(cells, i, targetIdx, acc) ==
  LET inputCells == SubSeq(cells, i + 1, i + targetIdx)
      j == i + targetIdx
      target == cells[j + 1]
      other == FindIndex(Drop(cells, j + 1), LAMBDA c : ~ IsInt(c))
      outCnt == IF other = 0 THEN Len(cells) - j - 1 ELSE other - 1 - targetIdx
      outputCells == SubSeq(cells, j + 2, j + 1 + outCnt)
  IN  IF i + targetIdx + 1 >= Len(cells) THEN acc
      ELSE IF ~ AllOf(inputCells, IsInt) THEN acc
      ELSE IF ~ IsPHandle(target) THEN acc
      ELSE IF outCnt < 0 THEN acc
      ELSE IF \E k \in 1..Len(outputCells) : IsPHandle(outputCells[k]) THEN acc
      ELSE NexusLoop(cells, j + 1 + outCnt, targetIdx,
                     Append(acc, [in |-> inputCells, target |-> target, out |-> outputCells]))

\* `val.forEach(v => ...)` with the loop of the getter `how.get`
RECURSIVE OverArrays(_, _, _)
OverArrays(val, acc, how) ==
  IF val = <<>> THEN acc
  ELSE OverArrays(Tail(val),
                  CASE how.get = "entries" -> EntriesLoop(Head(val).val, 0, acc)
                    [] how.get = "regs" ->
                         RegsLoop(Head(val).val, 0, how.addrCells, how.sizeCells, acc)
                    [] OTHER -> NexusLoop(Head(val).val, 0, how.targetIdx, acc),
                  how)

entries(value) ==
  LET val == PropertyGet("pHandleArray", value)
  IN  IF val.absent \/ val.val = <<>> THEN Absent
      ELSE Present(OverArrays(val.val, <<>>, [get |-> "entries"]))

regs(value, addrCells, sizeCells) ==
  LET val == PropertyGet("pHandleArray", value)
      r == OverArrays(val.val, [unending |-> FALSE, val |-> <<>>],
                      [get |-> "regs", addrCells |-> addrCells, sizeCells |-> sizeCells])
  IN  IF val.absent \/ val.val = <<>> THEN Absent
      ELSE IF r.unending THEN Unending
      ELSE Present(r.val)

nexusMap(name, value) ==
  LET val == PropertyGet("pHandleArray", value)
      targetIdx == FindIndex(val.val[1].val, IsPHandle) - 1
  IN  IF ~ EndsWithMap(name) THEN Absent
      ELSE IF val.absent \/ val.val = <<>> THEN Present(<<>>)
      ELSE IF targetIdx = -1 THEN Present(<<>>)
      ELSE Present(OverArrays(val.val, <<>>, [get |-> "nexusMap", targetIdx |-> targetIdx]))

\* Number.prototype.toString(base) for base 10 and base 16
DigitChar(d) ==
  << "0", "1", "2", "3", "4", "5", "6", "7", "8", "9", "a", "b", "c", "d", "e", "f" >>[d + 1]

RECURSIVE NumberToString(_, _)
NumberToString(n, base) ==
  IF n < base THEN << DigitChar(n) >>
  ELSE Append(NumberToString(n \div base, base), DigitChar(n % base))

\* IntValue.toString(raw)
IntValueToString(c, raw) ==
  LET val == IF c.hex THEN << "0", "x" >> \o NumberToString(c.val, 16)
             ELSE NumberToString(c.val, 10)
  IN  IF raw THEN val ELSE << "<", " " >> \o val \o << " ", ">" >>

\* PHandle.toString(raw)
PHandleToString(c, raw) ==
  CASE c.kind = "ref" -> IF raw THEN c.val ELSE << "<", " " >> \o c.val \o << " ", ">" >>
    [] c.kind = "pathRef" ->
         IF raw THEN << "&", "{" >> \o c.val \o << "}" >>
         ELSE << "<", " ", "&", "{" >> \o c.val \o << "}", " ", ">" >>
    [] c.kind = "string" -> << "\"" >> \o c.val \o << "\"" >>
    [] OTHER -> <<>>

\* Array.prototype.join(' ')
RECURSIVE JoinBlank(_)
JoinBlank(texts) ==
  IF texts = <<>> THEN <<>>
  ELSE IF Len(texts) = 1 THEN texts[1]
  ELSE texts[1] \o << " " >> \o JoinBlank(Tail(texts))

\* ArrayValue.toString for an array of integers and phandles
ArrayValueToString(v) ==
  << "<", " " >>
    \o JoinBlank([i \in 1..Len(v.val) |->
                    IF IsPHandle(v.val[i]) THEN PHandleToString(v.val[i], TRUE)
                    ELSE IntValueToString(v.val[i], TRUE)])
    \o << " ", ">" >>

\* Node.parent: the node a Node was constructed under, <<>> for none.  A Node
\* is identified by the entry that was made with it.
NodeParent(he, nid) ==
  IF he[nid].parent # <<>> THEN << he[he[nid].parent[1]].node >> ELSE <<>>

\* Node.addrCells / Node.sizeCells / cellCount: the number the property holds,
\* or the default
NodeCells(hn, he, nid, name, default) ==
  LET p == property(hn, he, nid, name)
      n == PropertyGet("number", p[1])
  IN  IF p # <<>> /\ ~ n.absent THEN n.val ELSE default

\* `this.entry.node.parent?.addrCells() ?? 2` and `...sizeCells() ?? 1`
ParentCells(hn, he, entry, name, default) ==
  LET parent == NodeParent(he, he[entry].node)
  IN  IF parent = <<>> THEN default ELSE NodeCells(hn, he, parent[1], name, default)

\* a typed getter of the property p of an entry
Getters ==
  {"boolean", "number", "string", "pHandle", "bytestring", "array", "arrays",
   "pHandles", "pHandleArray", "stringArray", "entries", "regs", "nexusMap"}

Get(get, hn, he, entry, p) ==
  CASE get = "entries" -> entries(p.val)
    [] get = "regs" ->
         regs(p.val, ParentCells(hn, he, entry, Chars("#address-cells"), 2),
              ParentCells(hn, he, entry, Chars("#size-cells"), 1))
    [] get = "nexusMap" -> nexusMap(p.name, p.val)
    [] OTHER -> PropertyGet(get, p.val)

\* ------------------------------------------------- Parser.parse (characters)
\* The scan loop of Parser.parse over the characters of the lines.  Paths,
\* names and labels are sequences of characters here, and the registry is
\* keyed by the path string.
RootPath == << "/" >>

ParseInit(reg, hn, he, file, lines) ==
  [reg |-> reg, hn |-> hn, he |-> he, file |-> file, stack |-> <<>>,
   labels |-> <<>>, reqSemi |-> FALSE, n |-> 0,
   lines |-> lines, line |-> 1, col |-> 0,
   prev |-> [line |-> 1, col |-> 0, len |-> 0], acts |-> <<>>]

\* DTSCtx.node(name, parent): `&{path}`, `&label`, or a path that is made to
\* end in a slash and put behind the parent's path; <<>> when there is none
ctxNode(P, name, parent) ==
  LET closing == { i \in 3..Len(name) : name[i] = "}" }
      last == CHOOSE i \in closing : \A j \in closing : j <= i
      isPathRef == StartsWith(name, << "&", "{" >>)
      n0 == IF isPathRef THEN SubSeq(name, 3, last - 1) ELSE name
      n1 == IF n0 # <<>> /\ Last(n0) = "/" THEN n0 ELSE Append(n0, "/")
      n2 == IF parent # <<>> THEN P.hn[parent[1]].path \o n1 ELSE n1
  IN  IF isPathRef /\ closing = {} THEN <<>>
      ELSE IF ~ isPathRef /\ StartsWith(name, << "&" >>)
      THEN ctxNodeByLabel(P.reg, P.hn, P.he, Drop(name, 1))
      ELSE ctxNodeByPath(P.reg, n2)

\* Number(addr) === 0 for a string of hexadecimal digits: zeros only, or
\* zeros with a decimal exponent
NumberIsZero(addr) ==
  LET z == Run(addr, {"0"})
  IN  \/ z = Len(addr)
      \/ /\ z > 0 /\ Len(addr) > z + 1
         /\ addr[z + 1] \in {"e", "E"}
         /\ Run(Drop(addr, z + 1), Digit) = Len(addr) - z - 1

\* new Property(name, loc, state, entry, labels): the values are parsed and
\* the property is pushed to the entry on top of the node stack
ParseProperty(P, name) ==
  LET top == Last(P.stack)
      V == parsePropValue(P)
  IN  [V.P EXCEPT !.he[top].props = Append(@, [name |-> name, val |-> V.elems]),
                  !.labels = <<>>]

\* the text of the 'Close brackets' quick fix for d open nodes
RECURSIVE Tabs(_)
Tabs(i) == IF i = 0 THEN <<>> ELSE << "\t" >> \o Tabs(i - 1)

RECURSIVE ClosingLines(_)
ClosingLines(d) ==
  IF d = 0 THEN <<>>
  ELSE Tabs(d - 1) \o << "}", ";", "\n" >> \o ClosingLines(d - 1)

\* `name`, `name@addr`, followed by `{`, `=` or neither
ParseName(W, nlen) ==
  LET s == Rest(W)
      name == SubSeq(s, 1, nlen)
      N1 == Take(W, nlen)
      s1 == Rest(N1)
      alen == IF StartsWith(s1, << "@" >>) THEN Run(Drop(s1, 1), HexDigit) ELSE 0
      addr == SubSeq(s1, 2, alen + 1)
      N2 == SkipWs(IF alen > 0 THEN Take(N1, alen + 1) ELSE N1)
      inNode == W.stack # <<>>
      fullName == IF alen > 0 THEN name \o << "@" >> \o addr ELSE name
      path == IF inNode
              THEN W.hn[W.he[Last(W.stack)].node].path \o fullName \o << "/" >>
              ELSE RootPath
      O == ScanNodeOpenAt(Take(N2, 1), path)
      S == [N2 EXCEPT !.reqSemi = TRUE]
  IN  IF StartsWith(Rest(N2), << "{" >>)
      THEN IF alen > 0 /\ addr[1] = "0" /\ ~ NumberIsZero(addr)
           THEN pushAction(pushDiag(O, "Address should not start with leading 0's"),
                           "Trim leading 0's", <<>>, O.prev)
           ELSE O
      ELSE IF alen > 0
      THEN pushDiag(S, "Only nodes have addresses. Expecting opening node block")
      ELSE IF StartsWith(Rest(S), << "=" >>)
      THEN IF inNode
           THEN ParseProperty(Take(S, 1), name)
           ELSE [pushDiag(Take(S, 1), "Property outside of node context")
                   EXCEPT !.labels = <<>>]
      ELSE IF inNode
      THEN ParseProperty(S, name)
      ELSE pushDiag(S, "Property outside of node context")

\* /^(&[\w-]+|&{[\w@/-]+})/ : the length of the match, 0 for none
RefLen(s) ==
  LET lab == IF StartsWith(s, << "&" >>) THEN Run(Drop(s, 1), LabelChar) ELSE 0
      pth == IF StartsWith(s, << "&", "{" >>) THEN Run(Drop(s, 2), PathChar) ELSE 0
  IN  IF lab > 0 THEN lab + 1
      ELSE IF pth > 0 /\ Len(s) >= pth + 3 /\ s[pth + 3] = "}" THEN pth + 3
      ELSE 0

\* `&label {` or `&{path} {`
ParseRef(W, rlen) ==
  LET ref == SubSeq(Rest(W), 1, rlen)
      R == SkipWs(Take(W, rlen))
  IN  IF StartsWith(Rest(R), << "{" >>)
      THEN ScanRefOpenHit(Take(R, 1), ref, ref, ctxNode(W, ref, <<>>))
      ELSE pushDiag(R, "References can only be made to nodes")

\* /^\/dts-v.+?\/\s*/ : the length of the match, 0 for none
VersionLen(s) ==
  LET q == IF StartsWith(s, Chars("/dts-v")) THEN IndexFrom(s, "/", 8) ELSE 0
  IN  IF q = 0 THEN 0 ELSE q + Run(Drop(s, q), SpaceChar)

\* `/delete-node/ name`
ParseDeleteNode(W) ==
  LET D == SkipWs(Take(W, Len(Chars("/delete-node/"))))
      s == Rest(D)
      amp == IF StartsWith(s, << "&" >>) THEN 1 ELSE 0
      with == Run(Drop(s, amp), NodeRefChar)
      n == IF with > 0 THEN amp + with ELSE Run(s, NodeRefChar)
      name == SubSeq(s, 1, n)
      scoped == name[1] # "&" /\ W.stack # <<>>
  IN  IF n = 0
      THEN pushDiag([D EXCEPT !.reqSemi = TRUE], "Expected node")
      ELSE ScanDeleteNodeHit(Take(D, n),
              ctxNode(W, name,
                      IF scoped THEN << W.he[Last(W.stack)].node >> ELSE <<>>))

\* `/delete-property/ name`: the property is looked up among the properties
\* of the node by `p.name === deleteProp[0]`, and deleteProp is the match
\* of the keyword
ParseDeleteProperty(W) ==
  LET deleteProp == Chars("/delete-property/")
      D == [SkipWs(Take(W, Len(deleteProp))) EXCEPT !.reqSemi = TRUE]
      n == Run(Rest(D), PropNameChar)
      T == Take(D, n)
      nid == W.he[Last(W.stack)].node
      props == PropsOf(W.he, W.hn[nid].entries)
  IN  IF n = 0 THEN pushDiag(D, "Expected property")
      ELSE IF W.stack = <<>>
      THEN pushDiag(T, "Can only delete properties inside a node")
      ELSE IF \E i \in 1..Len(props) : props[i].name = deleteProp
      THEN T
      ELSE pushDiag(T, "Unknown property")

\* /^\/\s*{/ : the length of the match, 0 for none
RootLen(s) ==
  LET w == IF StartsWith(s, << "/" >>) THEN Run(Drop(s, 1), SpaceChar) ELSE 0
  IN  IF StartsWith(s, << "/" >>) /\ Len(s) >= w + 2 /\ s[w + 2] = "{"
      THEN w + 2 ELSE 0

\* a closing brace that offers no quick fix
ParseCloseQuiet(W) == ScanClose(Take(W, 1))

\* `}`
ParseClose(W) ==
  LET C == ScanClose(Take(W, 1))
  IN  IF W.stack # <<>> THEN C
      ELSE pushAction(C, "Delete unnecessary closing bracket", <<>>, C.prev)

\* no pattern matches: the token is skipped and reported
ParseUnexpected(W) ==
  LET T == pushDiag(SkipToken(W), "Unexpected token")
  IN  pushAction(T, "Delete invalid token", <<>>, T.prev)

\* /^\/\*[\s\S]*?\*\// : the length of the match, 0 for none
BlockCommentLen(s) ==
  LET ends == { i \in 3..(Len(s) - 1) : s[i] = "*" /\ s[i + 1] = "/" }
  IN  IF StartsWith(s, Chars("/*")) /\ ends # {}
      THEN 1 + CHOOSE i \in ends : \A j \in ends : i <= j
      ELSE 0

\* /^([\w-]+):\s*/ : the length of the label, 0 for none
LabelLen(s) ==
  LET n == Run(s, LabelChar)
  IN  IF n > 0 /\ Len(s) > n /\ s[n + 1] = ":" THEN n ELSE 0

\* the branch an iteration of the scan loop takes: the first pattern, in the
\* order of the loop body, that matches the text at the cursor
Branch(W) ==
  LET s == Rest(W)
  IN  IF BlockCommentLen(s) > 0 THEN "blockComment"
      ELSE IF StartsWith(s, Chars("//")) THEN "comment"
      ELSE IF W.reqSemi THEN "semicolon"
      ELSE IF LabelLen(s) > 0 THEN "label"
      ELSE IF Run(s, NameChar) > 0 THEN "name"
      ELSE IF RefLen(s) > 0 THEN "ref"
      ELSE IF VersionLen(s) > 0 THEN "version"
      ELSE IF StartsWith(s, Chars("/delete-node/")) THEN "deleteNode"
      ELSE IF StartsWith(s, Chars("/delete-property/")) THEN "deleteProperty"
      ELSE IF RootLen(s) > 0 THEN "root"
      ELSE IF StartsWith(s, << "}" >>) THEN "closingBrace"
      ELSE "unexpected"

\* one iteration of the scan loop; W is the state after skipWhitespace, not
\* at the end of the file
ParseIter(W) ==
  LET s == Rest(W)
      b == Branch(W)
      L == ScanDropLabels(W)
  IN  CASE b = "blockComment" -> Take(W, BlockCommentLen(s))
        [] b = "comment" -> Take(W, Len(s))
        [] b = "semicolon" ->
             IF StartsWith(s, << ";" >>)
             THEN [Take(W, 1) EXCEPT !.reqSemi = FALSE]
             ELSE pushAction(pushDiag([W EXCEPT !.reqSemi = FALSE], "Missing semicolon"),
                             "Add semicolon", << ";" >>, PrevEnd(W))
        [] b = "label" ->
             [Take(W, LabelLen(s) + 1 + Run(Drop(s, LabelLen(s) + 1), SpaceChar))
                EXCEPT !.labels = Append(@, SubSeq(s, 1, LabelLen(s)))]
        [] b = "name" -> ParseName(W, Run(s, NameChar))
        [] b = "ref" -> ParseRef(W, RefLen(s))
        [] b = "version" -> [Take(L, VersionLen(s)) EXCEPT !.reqSemi = TRUE]
        [] b = "deleteNode" -> ParseDeleteNode(L)
        [] b = "deleteProperty" -> ParseDeleteProperty(L)
        [] b = "root" -> ScanRootAt(Take(L, RootLen(s)), RootPath)
        [] b = "closingBrace" -> ParseClose(L)
        [] OTHER -> ParseUnexpected(L)

\* after the loop: the nodes left open and the semicolon still required
ParseEnd(P) ==
  LET P1 == IF P.stack # <<>>
            THEN pushAction(pushDiag(P, "Unterminated node"), "Close brackets",
                            << "\n" >> \o ClosingLines(Len(P.stack)), PrevEnd(P))
            ELSE P
  IN  IF P.reqSemi
      THEN pushAction(pushDiag(P1, "Expected semicolon"), "Add semicolon",
                      << ";" >>, PrevEnd(P1))
      ELSE P1

\* ---------------------------------------------------------- texts to parse
\* The lines the preprocessor hands to the parser.  A line holds at least
\* one character.
\* a context to parse: the lines of its board file and of its overlays, and
\* what the text was built from
ParseCase(kind, texts, arg) == [kind |-> kind, texts |-> texts, arg |-> arg]

OpenRoot == Ln(<< "/", " ", "{" >>)

CloseNode == Ln(<< "}", ";" >>)

\* foo: node@10 { reg = <0x10 0x20>; };
NodeAt10 ==
  Ln(<< "foo", ":", " ", "node", "@", "10", " ", "{", " ", "reg", " ", "=", " ",
        "<", "0x10", " ", "0x20", ">", ";", " ", "}", ";" >>)

\* &foo { status = "disabled"; };
DisableFoo ==
  Ln(<< "&", "foo", " ", "{", " ", "status", " ", "=", " ", "\"", "disabled",
        "\"", ";", " ", "}", ";" >>)

ScenarioCases ==
  { ParseCase("scenario", << << NodeAt10 >>, << DisableFoo >> >>, [form |-> "flat"]),
    ParseCase("scenario", << << OpenRoot, NodeAt10, CloseNode >>, << DisableFoo >> >>,
              [form |-> "nested"]) }

\* property value lists:  / { a = v1 [,] v2 [,] v3 <tail>
MaxValues == 3

ValueKinds == {"array", "string", "bytes", "ref"}

ValuePieces(kind) ==
  CASE kind = "array" -> << "<", "1", ">" >>
    [] kind = "string" -> << "\"", "s", "\"" >>
    [] kind = "bytes" -> << "[", "ab", "]" >>
    [] OTHER -> << "&", "foo" >>

RECURSIVE ListPieces(_, _)
ListPieces(vals, commas) ==
  IF Len(vals) = 1 THEN ValuePieces(vals[1])
  ELSE ValuePieces(vals[1]) \o (IF commas[1] THEN << "," >> ELSE <<>>)
         \o << " " >> \o ListPieces(Tail(vals), Tail(commas))

ListTails == {"semicolon", "brace", "eof"}

TailPieces(tail) ==
  CASE tail = "semicolon" -> << ";", " ", "}", ";" >>
    [] tail = "brace" -> << " ", "}", ";" >>
    [] OTHER -> <<>>

ListCases ==
  UNION { { ParseCase("list",
                      << << OpenRoot,
                            Ln(<< "a", " ", "=", " " >> \o ListPieces(vals, commas)
                                 \o TailPieces(tail)) >> >>,
                      [vals |-> vals, commas |-> commas, tail |-> tail]) :
              vals \in [1..k -> ValueKinds],
              commas \in [1..(k - 1) -> BOOLEAN],
              tail \in ListTails } : k \in 1..MaxValues }

\* an array without its closing bracket:  / { bad = <1 2 <what follows>
BadArray == Ln(<< "bad", " ", "=", " ", "<", "1", " ", "2" >>)

Follows == {"eof", "semicolon", "semicolonEof", "brace", "property", "node"}

FollowLines(follow) ==
  CASE follow = "eof" -> << BadArray >>
    [] follow = "semicolon" -> << BadArray \o << ";" >>, CloseNode >>
    [] follow = "semicolonEof" -> << BadArray \o << ";" >> >>
    [] follow = "brace" -> << BadArray, CloseNode >>
    [] follow = "property" ->
         << BadArray, Ln(<< "b", " ", "=", " ", "<", "3", ">", ";" >>), CloseNode >>
    [] OTHER ->
         << BadArray, Ln(<< "n", " ", "{", " ", "}", ";" >>), CloseNode >>

ArrayCases ==
  { ParseCase("array", << << OpenRoot >> \o FollowLines(f) >>, [follow |-> f]) : f \in Follows }

\* a file that ends inside d nested nodes, each with a property
MaxDepth == 3

RECURSIVE OpenLines(_)
OpenLines(d) ==
  IF d = 1 THEN << OpenRoot, Ln(<< "p", " ", "=", " ", "<", "1", ">", ";" >>) >>
  ELSE OpenLines(d - 1)
         \o << Ln(<< "n", " ", "{" >>), Ln(<< "p", " ", "=", " ", "<", "1", ">", ";" >>) >>

OpenCases == { ParseCase("open", << OpenLines(d) >>, [depth |-> d]) : d \in 1..MaxDepth }

\* /delete-node/ in an overlay of the board  / { foo: node { p = <1>; }; };
BoardFoo ==
  << OpenRoot,
     Ln(<< "foo", ":", " ", "node", " ", "{", " ", "p", " ", "=", " ", "<", "1",
           ">", ";", " ", "}", ";" >>),
     CloseNode >>

DeleteNodes == {"label", "child", "path", "unknown", "missing", "scoped"}

DeleteNodeLines(how) ==
  CASE how = "label" -> << Ln(<< "/delete-node/", " ", "&", "foo", ";" >>) >>
    [] how = "child" ->
         << OpenRoot, Ln(<< "/delete-node/", " ", "node", ";" >>), CloseNode >>
    [] how = "path" -> << Ln(<< "/delete-node/", " ", "/", "node", ";" >>) >>
    [] how = "unknown" -> << Ln(<< "/delete-node/", " ", "&", "bar", ";" >>) >>
    [] how = "missing" -> << Ln(<< "/delete-node/", " ", ";" >>) >>
    [] OTHER ->
         << Ln(<< "&", "foo", " ", "{" >>),
            Ln(<< "/delete-node/", " ", "sub", ";" >>), CloseNode >>

DeleteNodeCases ==
  { ParseCase("deleteNode", << BoardFoo, DeleteNodeLines(how) >>, [node |-> how]) :
      how \in DeleteNodes }

\* /delete-property/ after  / { n { p = <1>;
DeleteProps == {"declared", "undeclared", "outside", "missing"}

DeletePropLines(how) ==
  LET open == << OpenRoot, Ln(<< "n", " ", "{", " ", "p", " ", "=", " ", "<", "1",
                                 ">", ";" >>) >>
      close == << CloseNode, CloseNode >>
  IN  CASE how = "declared" ->
             open \o << Ln(<< "/delete-property/", " ", "p", ";" >>) >> \o close
        [] how = "undeclared" ->
             open \o << Ln(<< "/delete-property/", " ", "q", ";" >>) >> \o close
        [] how = "outside" ->
             open \o close \o << Ln(<< "/delete-property/", " ", "p", ";" >>) >>
        [] OTHER ->
             open \o << Ln(<< "/delete-property/", " ", ";" >>) >> \o close

DeletePropCases ==
  { ParseCase("deleteProp", << DeletePropLines(how) >>, [prop |-> how]) : how \in DeleteProps }

\* a character no pattern of the scan loop matches, before the root node,
\* between two properties or behind the root node
Strays == {"%", "=", ">", "<", ";", "$", "@", ":", "]", ")", "\""}

Places == {"before", "inside", "after"}

StrayLines(ch, place) ==
  LET first == Ln(<< "a", " ", "=", " ", "<", "1", ">", ";" >>)
      second == Ln(<< "b", " ", "=", " ", "<", "2", ">", ";" >>)
      head == << Ln(<< "/dts-v1/", ";", " ", "//", " ", "a" >>) >>
  IN  CASE place = "before" ->
             head \o << << ch >>, OpenRoot, first, second, CloseNode >>
        [] place = "inside" ->
             head \o << OpenRoot, first \o << " ", ch, " " >> \o second, CloseNode >>
        [] OTHER ->
             head \o << OpenRoot, first, second,
                        CloseNode \o << " ", ch >>,
                        Ln(<< "/*", " ", "a", " ", "*/", " ", "}" >>) >>

StrayCases ==
  { ParseCase("stray", << StrayLines(ch, place) >>, [ch |-> ch, place |-> place]) :
      ch \in Strays, place \in Places }

\* `/delete-property/ foo; foo = <1>;` in the node /n/, alone, behind a
\* declaration of foo in the same block, or in an overlay of a board file that
\* declares foo
Redeclares == {"alone", "same", "board"}

RedeclareLines(how) ==
  LET zero == << "foo", " ", "=", " ", "<", "0", ">", ";" >>
      again == Ln(<< "/delete-property/", " ", "foo", ";", " ", "foo", " ", "=", " ",
                     "<", "1", ">", ";" >>)
      open == Ln(<< "n", " ", "{" >>)
      overlay == << OpenRoot, open, again, CloseNode, CloseNode >>
  IN  CASE how = "alone" -> << overlay >>
        [] how = "same" ->
             << << OpenRoot, open \o << " " >> \o Ln(zero), again, CloseNode, CloseNode >> >>
        [] OTHER ->
             << << OpenRoot, open \o << " " >> \o Ln(zero), CloseNode, CloseNode >>,
                overlay >>

RedeclareCases ==
  { ParseCase("redeclare", RedeclareLines(how), [how |-> how]) : how \in Redeclares }

\* an array with a parenthesised expression:  / { a = <(inner) 2>; };  with
\* up to MaxExpr numbers and operators inside, written with or without
\* blanks, in one or two pairs of parentheses, with or without the last
\* closing parenthesis
MaxExpr == 3

ExprPieces == {"1", "2", "+"}

RECURSIVE Joined(_, _)
Joined(pieces, spaced) ==
  IF Len(pieces) <= 1 THEN pieces
  ELSE << Head(pieces) >> \o (IF spaced THEN << " " >> ELSE <<>>)
         \o Joined(Tail(pieces), spaced)

ExprText(arg) ==
  (IF arg.nested THEN << "(", "(" >> ELSE << "(" >>)
    \o Joined(arg.inner, arg.spaced)
    \o (IF arg.nested THEN << ")" >> ELSE <<>>)
    \o (IF arg.closed THEN << ")" >> ELSE <<>>)

ExprArgs ==
  UNION { [inner : [1..k -> ExprPieces], spaced : BOOLEAN, nested : BOOLEAN,
           closed : BOOLEAN] : k \in 0..MaxExpr }

ExprCases ==
  { ParseCase("expr",
              << << OpenRoot,
                    << "a", " ", "=", " ", "<" >> \o ExprText(arg)
                      \o << " ", "2", ">", ";" >>,
                    CloseNode >> >>,
              arg) : arg \in ExprArgs }

\* one property of each shape in the root node
Shapes ==
  { << "a", ";" >>,
    << "a", " ", "=", " ", "1", ";" >>,
    << "a", " ", "=", " ", "<", ">", ";" >>,
    << "a", " ", "=", " ", "<", "1", ">", ";" >>,
    << "a", " ", "=", " ", "<", "1", " ", "2", ">", ";" >>,
    << "a", " ", "=", " ", "<", "(", "1", "+", "2", ")", ">", ";" >>,
    << "a", " ", "=", " ", "<", "&", "foo", ">", ";" >>,
    << "a", " ", "=", " ", "<", "&", "foo", " ", "1", " ", "2", ">", ";" >>,
    << "a", " ", "=", " ", "<", "&", "foo", " ", "1", " ", "&", "foo", " ", "2", ">",
       ",", " ", "<", "&", "foo", " ", "1", ">", ";" >>,
    << "a", " ", "=", " ", "&", "foo", ";" >>,
    << "a", " ", "=", " ", "&", "foo", ",", " ", "&", "foo", ";" >>,
    << "a", " ", "=", " ", "\"", "s", "\"", ";" >>,
    << "a", " ", "=", " ", "\"", "s", "\"", ",", " ", "\"", "s", "\"", ";" >>,
    << "a", " ", "=", " ", "[", "ab", "]", ";" >>,
    << "a", " ", "=", " ", "<", "1", ">", ",", " ", "\"", "s", "\"", ";" >>,
    << "a-map", " ", "=", " ", "<", "1", " ", "&", "foo", " ", "2", ">", ";" >>,
    << "a-map", " ", "=", " ", "<", "1", " ", "2", ">", ";" >>,
    << "a-map", " ", "=", " ", "1", ";" >>,
    << "reg", " ", "=", " ", "<", "1", " ", "2", " ", "3", ">", ";" >>,
    << "reg", " ", "=", " ", "<", "1", " ", "2", " ", "3", " ", "4", " ", "5", " ",
       "6", ">", ",", " ", "<", "1", " ", "2", " ", "&", "foo", ">", ";" >> }

ShapeCases ==
  { ParseCase("shape", << << OpenRoot, Ln(pieces), CloseNode >> >>, [pieces |-> pieces]) :
      pieces \in Shapes }

\* an array of up to MaxCells integer literals:  / { a = <l1 l2>; };  with one
\* or two blanks between the literals and with or without blanks inside the
\* brackets
MaxCells == 2

Literals ==
  { << "0" >>, << "1" >>, << "1", "0" >>, << "0", "1", "0" >>,
    << "0", "x", "1", "0" >>, << "0", "x", "1", "f" >>, << "0", "x", "1", "F" >>,
    << "0", "x", "0", "A" >> }

RECURSIVE JoinWith(_, _)
JoinWith(texts, sep) ==
  IF texts = <<>> THEN <<>>
  ELSE IF Len(texts) = 1 THEN texts[1]
  ELSE texts[1] \o sep \o JoinWith(Tail(texts), sep)

CellsText(arg) ==
  << "<" >> \o (IF arg.padded THEN << " " >> ELSE <<>>)
    \o JoinWith(arg.cells, IF arg.wide THEN << " ", "\t" >> ELSE << " " >>)
    \o (IF arg.padded THEN << " " >> ELSE <<>>) \o << ">" >>

CellsArgs ==
  UNION { [cells : [1..n -> Literals], padded : BOOLEAN, wide : BOOLEAN] : n \in 0..MaxCells }

CellsCases ==
  { ParseCase("cells",
              << << OpenRoot, << "a", " ", "=", " " >> \o CellsText(arg) \o << ";" >>,
                    CloseNode >> >>,
              arg) : arg \in CellsArgs }

\* the file  / { };  on one line, without blanks, and on two lines
Empties == {"line", "tight", "lines"}

EmptyLines(how) ==
  CASE how = "line" -> << Ln(<< "/", " ", "{", " ", "}", ";" >>) >>
    [] how = "tight" -> << Ln(<< "/", "{", "}", ";" >>) >>
    [] OTHER -> << OpenRoot, CloseNode >>

EmptyCases ==
  { ParseCase("empty", << EmptyLines(how) >>, [how |-> how]) : how \in Empties }

\* reference blocks on the label bar: one or two in a file, two in two files
\* of the context, and two in an overlay of a board file where bar is bound
UnknownRefs == {"once", "twice", "files", "bound"}

BoardBar ==
  << OpenRoot, Ln(<< "bar", ":", " ", "node", " ", "{", " ", "}", ";" >>), CloseNode >>

UnknownRefLines(how) ==
  LET first == Ln(<< "&", "bar", " ", "{", " ", "p", " ", "=", " ", "<", "1", ">", ";",
                     " ", "n", " ", "{", " ", "}", ";", " ", "}", ";" >>)
      second == Ln(<< "&", "bar", " ", "{", " ", "q", " ", "=", " ", "<", "2", ">", ";",
                      " ", "}", ";" >>)
  IN  CASE how = "once" -> << << first >> >>
        [] how = "twice" -> << << first, second >> >>
        [] how = "files" -> << << first >>, << second >> >>
        [] OTHER -> << BoardBar, << first, second >> >>

UnknownRefCases ==
  { ParseCase("unknownRef", UnknownRefLines(how), [how |-> how]) : how \in UnknownRefs }

\* a closing brace with no, one or two nodes open, and what follows it
CloseDepths == {0, 1, 2}

CloseNexts == {"semi", "spaced", "comment", "name", "brace", "lineComment", "stray", "end"}

CloseLines(depth, next) ==
  LET head == << Ln(<< "/dts-v1/", ";" >>) >>
      open == CASE depth = 0 -> <<>>
                [] depth = 1 -> << OpenRoot >>
                [] OTHER -> << OpenRoot, Ln(<< "n", " ", "{" >>) >>
      close == CASE next = "semi" -> << Ln(<< "}", ";" >>) >>
                 [] next = "spaced" -> << Ln(<< "}", " ", ";" >>) >>
                 [] next = "comment" -> << Ln(<< "}", " ", "/*", ";", "*/", " ", ";" >>) >>
                 [] next = "name" ->
                      << Ln(<< "}", " ", "b", " ", "=", " ", "<", "2", ">", ";" >>) >>
                 [] next = "brace" -> << Ln(<< "}", " ", "}", ";" >>) >>
                 [] next = "lineComment" ->
                      << Ln(<< "}", " ", "//", " ", ";" >>), Ln(<< "}", ";" >>) >>
                 [] next = "stray" -> << Ln(<< "}", " ", "%", ";" >>) >>
                 [] OTHER -> << Ln(<< "}" >>) >>
  IN  head \o open \o close

CloseCases ==
  { ParseCase("close", << CloseLines(depth, next) >>, [depth |-> depth, next |-> next]) :
      depth \in CloseDepths, next \in CloseNexts }

\* a number without brackets as a value of the property a of the root node:
\* alone, behind `<1>,`, behind `<1>`, and in front of `<2>` and `, <2>`
BareLiterals ==
  { << "1" >>, << "1", "0" >>, << "0", "1", "0" >>, << "0", "x", "1", "0" >>,
    << "0", "x", "1", "F" >> }

BareBefores == {"none", "comma", "blank"}

BareAfters == {"none", "value", "comma"}

BareLines(lit, before, after) ==
  LET head == CASE before = "none" -> <<>>
                [] before = "comma" -> Ln(<< "<", "1", ">", ",", " " >>)
                [] OTHER -> Ln(<< "<", "1", ">", " " >>)
      tail == CASE after = "none" -> <<>>
                [] after = "value" -> Ln(<< " ", "<", "2", ">" >>)
                [] OTHER -> Ln(<< ",", " ", "<", "2", ">" >>)
  IN  << OpenRoot, Ln(<< "a", " ", "=", " " >>) \o head \o lit \o tail \o << ";" >>,
         CloseNode >>

BareCases ==
  { ParseCase("bare", << BareLines(lit, before, after) >>,
              [lit |-> lit, before |-> before, after |-> after]) :
      lit \in BareLiterals, before \in BareBefores, after \in BareAfters }

\* a node with a reg property under a parent that declares its cell counts:
\*   / { #address-cells = <a>; #size-cells = <s>; sub { reg = ...; }; };
RegValues ==
  { << "<", ">" >>,
    << "<", "1", ">" >>,
    << "<", "1", " ", "2", " ", "3", ">" >>,
    << "<", "1", " ", "2", ">", ",", " ", "<", "3", ">" >>,
    << "<", "1", " ", "&", "foo", " ", "2", ">" >> }

CellDigit(n) == << "0", "1", "2", "3", "4" >>[n + 1]

RegLines(a, s, value) ==
  << OpenRoot,
     Ln(<< "#address-cells", " ", "=", " ", "<", CellDigit(a), ">", ";" >>),
     Ln(<< "#size-cells", " ", "=", " ", "<", CellDigit(s), ">", ";" >>),
     Ln(<< "sub", " ", "{" >>),
     Ln(<< "reg", " ", "=", " " >> \o value \o << ";" >>),
     CloseNode,
     CloseNode >>

RegCases ==
  { ParseCase("regs", << RegLines(a, s, value) >>,
              [addrCells |-> a, sizeCells |-> s, value |-> value]) :
      a \in 0..MaxCells, s \in 0..MaxCells, value \in RegValues }

ParseCases ==
  EmptyCases \cup CellsCases \cup ShapeCases \cup ScenarioCases \cup ListCases \cup ArrayCases \cup OpenCases
    \cup DeleteNodeCases \cup DeletePropCases \cup StrayCases
    \cup RedeclareCases \cup ExprCases \cup UnknownRefCases
    \cup CloseCases \cup BareCases \cup RegCases

\* ------------------------------------------------------------------- state
VARIABLES
  ctxs,      \* DTSCtx objects by id: status, boardFile, overlays, nodes, dirty, parsing
  nctx,      \* number of DTSCtx objects constructed
  appCtx,    \* Parser.appCtx
  boardCtx,  \* Parser.boardCtx
  currCtx,   \* Parser.currCtx (0 is null)
  isStable,  \* Parser.isStable
  waiters,   \* Parser.waiters
  heapN,     \* Node objects
  heapE,     \* NodeEntry objects
  tasks,     \* suspended calls of Parser.reparse
  adds,      \* suspended calls of Parser.addContext, by the context they build
  exists,    \* which documents vscode.workspace.openTextDocument can open
  events,    \* user-level events so far
  released,  \* waiters in the order reparse resolved them
  fired,     \* the last onChange event and the state it was fired in
  rejected,  \* contexts with a reparse call that ended in an exception
  lastQuery, \* what the last query saw
  pstate     \* the parses of one context, character by character

\* the variables of the contexts and their event handlers
world == << ctxs, nctx, appCtx, boardCtx, currCtx, isStable, waiters, heapN,
            heapE, tasks, adds, exists, events, released,
            fired, rejected, lastQuery >>

vars == << world, pstate >>

CtxIds == 1..MaxCtx

TaskIds == 1..MaxTasks

EmptyHeap == [x \in {} |-> 0]

\* new DTSCtx(); `inserted` counts the calls of insertOverlay on the context
NewCtx ==
  [status |-> "adding", name |-> "", board |-> "", boardFile |-> <<>>, overlays |-> <<>>,
   nodes |-> <<>>, dirty |-> <<>>, parsing |-> FALSE, gen |-> 0, inserted |-> 0]

NoCtx == [NewCtx EXCEPT !.status = "none"]

\* A suspended call of reparse: where it waits, its context, its `removed`
\* (board, ovs), the index of the overlay it works on, the DTSFile parse has
\* constructed, and the dirty URIs its reset() acted on
NoTask == [pc |-> "free", ctx |-> 0, gen |-> 0, board |-> <<>>, ovs |-> <<>>,
           i |-> 0, cur |-> <<>>, uris |-> <<>>, before |-> <<>>]

NoAdd == [pc |-> "none", board |-> "", ovUris |-> <<>>, ov |-> <<>>,
          cur |-> <<>>, viaOpen |-> FALSE, name |-> ""]

\* no parse of the character level is under way
NoParse == [pc |-> "idle", case |-> <<>>, idx |-> 0, P |-> <<>>, done |-> <<>>]

\* The part of the state the functions of Parser and DTSCtx work on
World ==
  [ctxs |-> ctxs, hn |-> heapN, he |-> heapE, tasks |-> tasks,
   isStable |-> isStable, waiters |-> waiters, released |-> released,
   fired |-> fired, rejected |-> rejected,
   appCtx |-> appCtx, boardCtx |-> boardCtx, currCtx |-> currCtx]

Commit(W) ==
  /\ ctxs' = W.ctxs
  /\ heapN' = W.hn
  /\ heapE' = W.he
  /\ tasks' = W.tasks
  /\ isStable' = W.isStable
  /\ waiters' = W.waiters
  /\ released' = W.released
  /\ fired' = W.fired
  /\ rejected' = W.rejected
  /\ appCtx' = W.appCtx
  /\ boardCtx' = W.boardCtx
  /\ currCtx' = W.currCtx

\* --------------------------------------------------------- DTSFile / DTSCtx
\* DTSFile.has (the files of the model include nothing)
fileHas(f, uri) == f.uri = uri

\* DTSCtx.files
files(cx) == cx.boardFile \o cx.overlays

\* DTSCtx.fileCount
fileCount(cx) == Len(cx.overlays) + (IF cx.boardFile # <<>> THEN 1 ELSE 0)

\* DTSCtx.has
ctxHas(cx, uri) == \E i \in 1..Len(files(cx)) : fileHas(files(cx)[i], uri)

\* Parser.contexts
contexts(W) == W.appCtx \o W.boardCtx

\* Parser.ctx(uri); 0 when no context has the file
ParserCtx(W, uri) ==
  IF W.currCtx # 0 /\ ctxHas(W.ctxs[W.currCtx], uri) THEN W.currCtx
  ELSE LET cs == contexts(W)
           hits == { i \in 1..Len(cs) : ctxHas(W.ctxs[cs[i]], uri) }
       IN  IF hits = {} THEN 0
           ELSE cs[CHOOSE i \in hits : \A j \in hits : i <= j]

\* DTSFile.remove on the heaps: detach the file's entries from their nodes
RemoveFromHeap(hn, f) ==
  [n \in DOMAIN hn |->
     [hn[n] EXCEPT !.entries =
        FilterSeq(@, SeqToSet(@) \ SeqToSet(f.entries))]]

removeFile(f) == [f EXCEPT !.entries = <<>>, !.dirty = TRUE]

dirtyHas(cx, f) == \E i \in 1..Len(cx.dirty) : fileHas(f, cx.dirty[i])

RECURSIVE RemoveAllFromHeap(_, _)
RemoveAllFromHeap(hn, fs) ==
  IF fs = <<>> THEN hn
  ELSE RemoveAllFromHeap(RemoveFromHeap(hn, Head(fs)), Tail(fs))

\* DTSCtx.reset: remove() the files a dirty URI belongs to, then empty the
\* context; the removed files are the result
reset(W, c) ==
  LET cx == W.ctxs[c]
      fs == files(cx)
      hit == { i \in 1..Len(fs) : dirtyHas(cx, fs[i]) }
      rm(f) == IF dirtyHas(cx, f) THEN removeFile(f) ELSE f
      gone == UNION { SeqToSet(fs[i].entries) : i \in hit }
  IN  [W |-> [W EXCEPT !.ctxs[c].boardFile = <<>>,
                       !.ctxs[c].overlays = <<>>,
                       !.ctxs[c].nodes = <<>>,
                       !.ctxs[c].dirty = <<>>,
                       !.hn = RemoveAllFromHeap(@, [i \in 1..Len(fs) |->
                                 IF i \in hit THEN fs[i]
                                 ELSE [fs[i] EXCEPT !.entries = <<>>]]),
                       !.he = [e \in (DOMAIN @) \ gone |-> @[e]]],
       board |-> [i \in 1..Len(cx.boardFile) |-> rm(cx.boardFile[i])],
       overlays |-> [i \in 1..Len(cx.overlays) |-> rm(cx.overlays[i])]]

\* DTSCtx.adoptNodes: register the node of every entry of the file whose path
\* is not in the registry yet
RECURSIVE adoptNodes(_, _, _, _)
adoptNodes(reg, hn, he, es) ==
  IF es = <<>> THEN reg
  ELSE LET nid == he[Head(es)].node
           path == hn[nid].path
       IN  adoptNodes(IF RegHas(reg, path) THEN reg ELSE RegPut(reg, path, nid),
                      hn, he, Tail(es))

\* What a context shows of its contents: the paths of its registry, the
\* entries of each node in the order of Node.entries (an entry is named by the
\* file it is in and its number there), the value of each name in
\* Node.uniqueProperties, and the diagnostics of each file
EntryKey(e) == << e[1][3], e[1][4], e[2] >>

NodeView(hn, he, nid) ==
  LET es == hn[nid].entries
      ps == PropsOf(he, es)
  IN  [entries |-> [i \in 1..Len(es) |-> EntryKey(es[i])],
       unique |-> { << ps[i].name, property(hn, he, nid, ps[i].name) >> :
                      i \in 1..Len(ps) },
       deleted |-> hn[nid].deleted]

\* the files of a context in their order, each with its priority and whether
\* Parser.parse made it
FileView(W, c) ==
  LET fs == files(W.ctxs[c])
  IN  [i \in 1..Len(fs) |->
         [uri |-> fs[i].uri, priority |-> fs[i].priority, parsed |-> fs[i].fid[3] = "parse"]]

CtxView(W, c) ==
  LET reg == W.ctxs[c].nodes
      fs == files(W.ctxs[c])
  IN  [nodes |-> { [path |-> reg[i].path, node |-> NodeView(W.hn, W.he, reg[i].nid)] :
                     i \in 1..Len(reg) },
       diags |-> [i \in 1..Len(fs) |-> [uri |-> fs[i].uri, diags |-> fs[i].diags]]]

\* ---------------------------------------------------------- Parser.reparse
FreeTasks(W) == { t \in TaskIds : W.tasks[t].pc = "free" }

InFlight(W, c) == { t \in TaskIds : W.tasks[t].pc # "free" /\ W.tasks[t].ctx = c }

RECURSIVE Reverse(_)
Reverse(s) == IF s = <<>> THEN <<>> ELSE Append(Reverse(Tail(s)), Head(s))

\* a loop that takes the waiters from the front instead
PopAllShift(ws) == ws

\* while (this.waiters.length) this.waiters.pop()();
PopAll(ws) == Reverse(ws)

\* the end of reparse, after the loop over the overlays
ReparseDone(W, t) ==
  LET c == W.tasks[t].ctx
      W1 == [W EXCEPT !.tasks[t] = NoTask]
  IN  [W1 EXCEPT !.ctxs[c].parsing = FALSE,
                 !.isStable = TRUE,
                 !.released = @ \o PopAll(W.waiters),
                 !.waiters = <<>>,
                 !.fired = << [ctx |-> c,
                               parsing |-> FALSE,
                               inflight |-> Cardinality(InFlight(W1, c)),
                               boardNull |-> W.ctxs[c].boardFile = <<>>,
                               overlays |-> Len(W.ctxs[c].overlays),
                               clean |-> W.tasks[t].uris = <<>>,
                               removed |-> W.ctxs[c].status = "removed",
                               same |-> CtxView(W, c) = W.tasks[t].before[1],
                               first |-> /\ W.tasks[t].gen = 1 /\ W.ctxs[c].gen = 1
                                         /\ \A i \in 1..Len(W.tasks[t].before[2]) :
                                               W.tasks[t].before[2][i].parsed,
                               sameFiles |-> FileView(W, c) = W.tasks[t].before[2]] >>]

\* an exception inside reparse: the call ends there
ReparseThrow(W, t) ==
  [W EXCEPT !.rejected = @ \cup { W.tasks[t].ctx }, !.tasks[t] = NoTask]

\* the loop over removed.overlays from index i on, up to the next await
RECURSIVE ReparseOverlays(_, _, _)
ReparseOverlays(W, t, i) ==
  LET c == W.tasks[t].ctx
      ovs == W.tasks[t].ovs
  IN  IF i > Len(ovs) THEN ReparseDone(W, t)
      ELSE IF ovs[i].dirty
           THEN [W EXCEPT !.tasks[t].pc = "openOv", !.tasks[t].i = i,
                          !.tasks[t].cur = <<>>]
           ELSE ReparseOverlays(
                  [W EXCEPT !.ctxs[c].nodes = adoptNodes(@, W.hn, W.he, ovs[i].entries),
                            !.ctxs[c].overlays = Append(@, ovs[i])],
                  t, i + 1)

\* reparse(ctx) from the call to its first await, run as task t
reparse(W, c, t) ==
  LET R == reset([W EXCEPT !.ctxs[c].parsing = TRUE, !.isStable = FALSE,
                           !.ctxs[c].gen = @ + 1], c)
      W1 == [R.W EXCEPT !.tasks[t] = [NoTask EXCEPT !.pc = "openBoard", !.ctx = c,
                                       !.gen = W.ctxs[c].gen + 1,
                                       !.uris = W.ctxs[c].dirty,
                                       !.before = << CtxView(W, c), FileView(W, c) >>,
                                       !.board = R.board, !.ovs = R.overlays]]
  IN  IF R.board # <<>> /\ R.board[1].dirty
      THEN W1
      ELSE IF R.board = <<>>
           THEN ReparseThrow(W1, t)
           ELSE ReparseOverlays(
                  [W1 EXCEPT !.ctxs[c].nodes =
                                adoptNodes(@, W1.hn, W1.he, R.board[1].entries),
                             !.ctxs[c].boardFile = R.board],
                  t, 1)

\* Parser.parse after `await preprocess`: scan the text into the file
Build(W, c, file) ==
  LET P == Scan(ScanInit(W.ctxs[c].nodes, W.hn, W.he, file), Text(file.uri))
  IN  [W |-> [W EXCEPT !.ctxs[c].nodes = P.reg, !.hn = P.hn, !.he = P.he],
       file |-> P.file]

\* Parser.parse from the call to `await preprocess`: a missing document makes
\* `doc.uri` throw, otherwise the DTSFile is constructed
TaskOpened(W, t, uri) ==
  IF exists[uri]
  THEN [W EXCEPT !.tasks[t].pc = IF @ = "openBoard" THEN "preBoard" ELSE "preOv",
                 !.tasks[t].cur =
                    << NewFile(Fid(W.tasks[t].ctx, W.tasks[t].gen, "parse", W.tasks[t].i), uri,
                               fileCount(W.ctxs[W.tasks[t].ctx])) >>]
  ELSE ReparseThrow(W, t)

\* reparse resumes after openTextDocument(removed.board.uri)
ReparseOpenBoard(t) ==
  /\ tasks[t].pc = "openBoard"
  /\ Commit(TaskOpened(World, t, tasks[t].board[1].uri))
  /\ UNCHANGED << pstate, nctx, adds, exists, events, lastQuery >>

\* reparse resumes after the parse of the board file
ReparsePreBoard(t) ==
  /\ tasks[t].pc = "preBoard"
  /\ LET c == tasks[t].ctx
         B == Build(World, c, tasks[t].cur[1])
     IN  Commit(ReparseOverlays([B.W EXCEPT !.ctxs[c].boardFile = << B.file >>],
                                t, 1))
  /\ UNCHANGED << pstate, nctx, adds, exists, events, lastQuery >>

\* reparse resumes after openTextDocument(overlay.uri)
ReparseOpenOverlay(t) ==
  /\ tasks[t].pc = "openOv"
  /\ Commit(TaskOpened(World, t, tasks[t].ovs[tasks[t].i].uri))
  /\ UNCHANGED << pstate, nctx, adds, exists, events, lastQuery >>

\* reparse resumes after the parse of an overlay
ReparsePreOverlay(t) ==
  /\ tasks[t].pc = "preOv"
  /\ LET c == tasks[t].ctx
         B == Build(World, c, tasks[t].cur[1])
     IN  Commit(ReparseOverlays([B.W EXCEPT !.ctxs[c].overlays = Append(@, B.file)],
                                t, tasks[t].i + 1))
  /\ UNCHANGED << pstate, nctx, adds, exists, events, lastQuery >>

\* --------------------------------------------------------- Parser.addContext
\* the documents an editor can show, the files edits and deletions hit, the
\* shield file of insertOverlays, the board of setBoard, and the context the
\* extension's API is asked to add
FocusUris == {"B", "D"}

EditUris == {"B", "O2", "D"}

DeleteUris == {"O2"}

ShieldUri == "S"

NewBoardUri == "B"

ApiBoard == "B"

ApiOverlays == << "O1", "O2" >>

ApiName == "app"

OvSlot(st, file) == [st |-> st, file |-> file]

Settled(ov) == \A j \in 1..Len(ov) : ov[j].st \in {"done", "undef"}

DoneFiles(ov) ==
  LET RECURSIVE Pick(_)
      Pick(j) == IF j > Len(ov) THEN <<>>
                 ELSE (IF ov[j].st = "done" THEN ov[j].file ELSE <<>>) \o Pick(j + 1)
  IN  Pick(1)

\* addContext(board, overlays) from the call to `await openTextDocument(board)`
addContext(W, A, c, board, ovUris, name, viaOpen) ==
  [W |-> [W EXCEPT !.ctxs[c] = [NewCtx EXCEPT !.board = board]],
   A |-> [A EXCEPT ![c] = [NoAdd EXCEPT !.pc = "openBoard", !.board = board,
                                        !.ovUris = ovUris, !.name = name,
                                        !.viaOpen = viaOpen]]]

\* a failing addContext that registers the context it was building
AddFailPush(W, A, c) ==
  [W |-> [W EXCEPT !.ctxs[c].status = "failed",
                   !.appCtx = Append(@, c),
                   !.currCtx = IF A[c].viaOpen THEN 0 ELSE @],
   A |-> [A EXCEPT ![c] = NoAdd]]

\* addContext returns undefined; onDidOpen stores that in currCtx
AddFail(W, A, c) ==
  [W |-> [W EXCEPT !.ctxs[c].status = "failed",
                   !.currCtx = IF A[c].viaOpen THEN 0 ELSE @],
   A |-> [A EXCEPT ![c] = NoAdd]]

\* addContext after `await Promise.all(...)`
AddFinish(W, A, c) ==
  LET ovs == DoneFiles(A[c].ov)
      W1 == [W EXCEPT !.ctxs[c].overlays = ovs]
  IN  IF A[c].ovUris # <<>> /\ ovs = <<>>
      THEN AddFail(W1, A, c)
      ELSE IF \E i \in 1..Len(W.boardCtx) : W.ctxs[W.boardCtx[i]].boardFile = <<>>
           \* existing.boardFile.uri of a context that is being reset throws
           THEN [W |-> [W1 EXCEPT !.ctxs[c].status = "failed",
                                  !.ctxs[c].name = A[c].name],
                 A |-> [A EXCEPT ![c] = NoAdd]]
           ELSE [W |-> [W1 EXCEPT
                          !.ctxs[c].status = "live",
                          !.ctxs[c].name = A[c].name,
                          !.appCtx = IF A[c].ovUris # <<>> THEN Append(@, c) ELSE @,
                          !.boardCtx = IF A[c].ovUris = <<>> THEN Append(@, c) ELSE @,
                          !.fired = << [ctx |-> c,
                                        parsing |-> W.ctxs[c].parsing,
                                        inflight |-> Cardinality(InFlight(W, c)),
                                        boardNull |-> W.ctxs[c].boardFile = <<>>,
                                        overlays |-> Len(ovs),
                                        clean |-> FALSE,
                                        removed |-> W.ctxs[c].status = "removed",
                                        same |-> TRUE,
                                        first |-> FALSE,
                                        sameFiles |-> TRUE] >>,
                          !.currCtx = IF A[c].viaOpen THEN c ELSE @],
                 A |-> [A EXCEPT ![c] = NoAdd]]

CommitAdd(R) == Commit(R.W) /\ adds' = R.A

\* the arguments of a call of addContext: the configured context, the same
\* without a board (as onDidOpen calls it for an overlay), and nothing at all
ApiCalls ==
  { [board |-> ApiBoard, overlays |-> ApiOverlays],
    [board |-> "", overlays |-> ApiOverlays],
    [board |-> "", overlays |-> <<>>] }

\* what guessOverlayBoard can determine: no board, or the configured one
GuessBoards == {"", ApiBoard}

\* addContext is called unless the configured context is registered; without
\* a board and without overlays, or when no board can be guessed, it returns
\* undefined before anything is opened
AddContextCall ==
  /\ nctx < MaxCtx
  /\ \A c \in CtxIds : ctxs[c].name # ApiName
  /\ \A c \in CtxIds : adds[c].pc = "none" \/ adds[c].viaOpen
  /\ ~ \E i \in 1..Len(contexts(World)) :
         LET cx == ctxs[contexts(World)[i]]
         IN  /\ Len(cx.overlays) = Len(ApiOverlays)
             /\ \A j \in 1..Len(cx.overlays) : cx.overlays[j].uri \in SeqToSet(ApiOverlays)
             /\ cx.board = ApiBoard
  /\ nctx' = nctx + 1
  /\ \E call \in ApiCalls, guess \in GuessBoards :
       LET board == IF call.board # "" THEN call.board ELSE guess
           R == addContext(World, adds, nctx + 1, board, call.overlays, ApiName, FALSE)
       IN  /\ call.board # "" => guess = ApiBoard
           /\ IF call.board = "" /\ (call.overlays = <<>> \/ guess = "")
              THEN CommitAdd(AddFail(R.W, R.A, nctx + 1))
              ELSE CommitAdd(R)
  /\ UNCHANGED << pstate, exists, events, lastQuery >>

\* addContext resumes after openTextDocument(board)
AddOpenBoard(c) ==
  /\ adds[c].pc = "openBoard"
  /\ IF exists[adds[c].board]
     THEN /\ Commit([World EXCEPT !.ctxs[c].parsing = TRUE])
          /\ adds' = [adds EXCEPT ![c].pc = "preBoard",
                        ![c].cur = << NewFile(Fid(c, 0, "parse", 0), adds[c].board,
                                              fileCount(ctxs[c])) >>]
     ELSE CommitAdd(AddFail(World, adds, c))
  /\ UNCHANGED << pstate, nctx, exists, events, lastQuery >>

\* addContext resumes after the parse of the board file and starts to open
\* every overlay
AddPreBoard(c) ==
  /\ adds[c].pc = "preBoard"
  /\ LET B == Build(World, c, adds[c].cur[1])
         W1 == [B.W EXCEPT !.ctxs[c].boardFile = << B.file >>,
                           !.ctxs[c].parsing = FALSE]
         A1 == [adds EXCEPT ![c].pc = "overlays", ![c].cur = <<>>,
                   ![c].ov = [j \in 1..Len(adds[c].ovUris) |-> OvSlot("open", <<>>)]]
     IN  IF adds[c].ovUris = <<>>
         THEN CommitAdd(AddFinish(W1, A1, c))
         ELSE Commit(W1) /\ adds' = A1
  /\ UNCHANGED << pstate, nctx, exists, events, lastQuery >>

\* openTextDocument(uri) of one overlay settles: parse is called on the
\* document, or the overlay becomes undefined
AddOpenOverlay(c, j) ==
  /\ adds[c].pc = "overlays"
  /\ j \in 1..Len(adds[c].ov)
  /\ adds[c].ov[j].st = "open"
  /\ LET uri == adds[c].ovUris[j]
         A1 == IF exists[uri]
               THEN [adds EXCEPT ![c].ov[j] =
                       OvSlot("pre", << NewFile(Fid(c, 0, "parse", j), uri, fileCount(ctxs[c])) >>)]
               ELSE [adds EXCEPT ![c].ov[j] = OvSlot("undef", <<>>)]
         W1 == World
     IN  IF Settled(A1[c].ov)
         THEN CommitAdd(AddFinish(W1, A1, c))
         ELSE Commit(W1) /\ adds' = A1
  /\ UNCHANGED << pstate, nctx, exists, events, lastQuery >>

\* the parse of one overlay resumes after `await preprocess`
AddPreOverlay(c, j) ==
  /\ adds[c].pc = "overlays"
  /\ j \in 1..Len(adds[c].ov)
  /\ adds[c].ov[j].st = "pre"
  /\ LET B == Build(World, c, adds[c].ov[j].file[1])
         A1 == [adds EXCEPT ![c].ov[j] = OvSlot("done", << B.file >>)]
     IN  IF Settled(A1[c].ov)
         THEN CommitAdd(AddFinish(B.W, A1, c))
         ELSE Commit(B.W) /\ adds' = A1
  /\ UNCHANGED << pstate, nctx, exists, events, lastQuery >>

\* ------------------------------------------------------------ event handlers
\* Events are counted up to MaxEvents.  The extension adds its configured
\* context while it activates: no event is delivered while that call of
\* addContext is suspended.
CanEvent == events < MaxEvents /\ \A c \in CtxIds : adds[c].pc = "none" \/ adds[c].viaOpen

Event == events' = events + 1

\* the smallest free task slot, for a call of reparse
FreeTask == CHOOSE t \in FreeTasks(World) : \A u \in FreeTasks(World) : t <= u

\* an edit handler that records the URI nowhere
PushDirtyNone(cs, ids, uri) == cs

RECURSIVE PushDirty(_, _, _)
PushDirty(cs, ids, uri) ==
  IF ids = <<>> THEN cs
  ELSE PushDirty(IF ctxHas(cs[Head(ids)], uri)
                 THEN [cs EXCEPT ![Head(ids)].dirty = Append(@, uri)]
                 ELSE cs,
                 Tail(ids), uri)

\* Parser.onDidChange: a document of the workspace was edited
OnDidChange(uri) ==
  /\ CanEvent /\ Event
  /\ uri \in EditUris
  /\ exists[uri]
  /\ LET W1 == [World EXCEPT !.ctxs = PushDirty(@, appCtx \o boardCtx, uri)]
     IN  IF currCtx # 0 /\ ~ ctxs[currCtx].parsing
         THEN /\ FreeTasks(World) # {}
              /\ Commit(reparse(W1, currCtx, FreeTask))
         ELSE Commit(W1)
  /\ UNCHANGED << pstate, nctx, adds, exists, lastQuery >>

\* Parser.onDidChangetextEditor with an editor on a DeviceTree document; a
\* document of no context goes to onDidOpen, which adds a context for it
OnDidChangeTextEditor(uri) ==
  /\ CanEvent /\ Event
  /\ uri \in FocusUris
  /\ LET c == ParserCtx(World, uri)
     IN  IF c # 0
         THEN /\ IF ctxs[c].dirty # <<>>
                 THEN /\ FreeTasks(World) # {}
                      /\ Commit(reparse([World EXCEPT !.currCtx = c], c, FreeTask))
                 ELSE Commit([World EXCEPT !.currCtx = c])
              /\ UNCHANGED << pstate, nctx, adds >>
         ELSE /\ nctx < MaxCtx
              /\ nctx' = nctx + 1
              /\ CommitAdd(addContext([World EXCEPT !.currCtx = 0], adds,
                                      nctx + 1, uri, <<>>, "", TRUE))
  /\ UNCHANGED << pstate, exists, lastQuery >>

\* Parser.onDidChangetextEditor without an editor on a DeviceTree document
OnDidChangeNoEditor ==
  /\ CanEvent /\ Event
  /\ Commit([World EXCEPT !.currCtx = 0])
  /\ UNCHANGED << pstate, nctx, adds, exists, lastQuery >>

\* Parser.removeCtx
removeCtx(W, c) ==
  [W EXCEPT !.appCtx = FilterSeq(@, SeqToSet(@) \ {c}),
            !.boardCtx = FilterSeq(@, SeqToSet(@) \ {c}),
            !.currCtx = IF @ = c THEN 0 ELSE @,
            !.ctxs[c].status = "removed"]

RECURSIVE RemoveCtxs(_, _)
RemoveCtxs(W, ids) ==
  IF ids = <<>> THEN W ELSE RemoveCtxs(removeCtx(W, Head(ids)), Tail(ids))

\* the command that deletes a context
RemoveCtxCommand(c) ==
  /\ CanEvent /\ Event
  /\ c \in SeqToSet(contexts(World))
  /\ Commit(removeCtx(World, c))
  /\ UNCHANGED << pstate, nctx, adds, exists, lastQuery >>

\* the onDidDeleteFiles handler of Parser.activate
OnDidDeleteFiles(uri) ==
  /\ CanEvent /\ Event
  /\ uri \in DeleteUris
  /\ exists[uri]
  /\ exists' = [exists EXCEPT ![uri] = FALSE]
  /\ LET cs == contexts(World)
         gone == { c \in SeqToSet(cs) :
                     \/ Len(ctxs[c].overlays) = 1 /\ ctxs[c].overlays[1].uri = uri
                     \/ ctxs[c].boardFile # <<>> /\ ctxs[c].boardFile[1].uri = uri }
         W1 == RemoveCtxs(World, FilterSeq(cs, gone))
         W2 == [W1 EXCEPT !.ctxs = PushDirty(@, contexts(W1), uri)]
     IN  IF W2.currCtx # 0 /\ W2.ctxs[W2.currCtx].dirty # <<>>
         THEN /\ FreeTasks(World) # {}
              /\ Commit(reparse(W2, W2.currCtx, FreeTask))
         ELSE Commit(W2)
  /\ UNCHANGED << pstate, nctx, adds, lastQuery >>

\* Parser.insertOverlays(uri) with DTSCtx.insertOverlay
InsertOverlays ==
  /\ CanEvent /\ Event
  /\ currCtx # 0
  /\ FreeTasks(World) # {}
  /\ LET cx == ctxs[currCtx]
         W1 == [World EXCEPT
                  !.ctxs[currCtx].overlays =
                      << NewFile(Fid(currCtx, cx.gen + 1, "insertOverlay", 0), ShieldUri,
                                 fileCount(cx)) >> \o @,
                  !.ctxs[currCtx].inserted = @ + 1,
                  !.ctxs[currCtx].dirty = Append(@, ShieldUri)]
     IN  Commit(reparse(W1, currCtx, FreeTask))
  /\ UNCHANGED << pstate, nctx, adds, exists, lastQuery >>

\* Parser.setBoard(board) with DTSCtx.setBoard, on the current context
SetBoard ==
  /\ CanEvent /\ Event
  /\ currCtx # 0
  /\ FreeTasks(World) # {}
  /\ LET cx == ctxs[currCtx]
         W1 == [World EXCEPT
                  !.ctxs[currCtx].board = NewBoardUri,
                  !.ctxs[currCtx].boardFile =
                      << NewFile(Fid(currCtx, cx.gen + 1, "setBoard", 0), NewBoardUri,
                                 fileCount(cx)) >>,
                  !.ctxs[currCtx].dirty = Append(@, NewBoardUri)]
     IN  Commit(reparse(W1, currCtx, FreeTask))
  /\ UNCHANGED << pstate, nctx, adds, exists, lastQuery >>

\* Parser.stable(): return at once when stable, else wait; callers are
\* numbered in the order of their calls
NextWaiter == Len(released) + Len(waiters) + 1

Stable ==
  /\ \A c \in CtxIds : adds[c].pc = "none" \/ adds[c].viaOpen
  /\ NextWaiter <= MaxWaiters
  /\ waiters' = IF isStable THEN waiters ELSE Append(waiters, NextWaiter)
  /\ UNCHANGED << pstate, ctxs, nctx, appCtx, boardCtx, currCtx, isStable, heapN, heapE,
                  tasks, adds, exists, events, released, fired, rejected,
                  lastQuery >>

\* a query of a provider on the current context: ctx.node('/node/') and
\* property('p') of that node, which sorts the node's entries in place
QueryPath == << "node" >>

QueryProp == "p"

Query ==
  /\ CanEvent /\ Event
  /\ currCtx # 0
  /\ LET cx == ctxs[currCtx]
         hit == ctxNodeByPath(cx.nodes, QueryPath)
     IN  /\ lastQuery' = << [ctx |-> currCtx,
                             parsing |-> cx.parsing,
                             inflight |-> Cardinality(InFlight(World, currCtx)),
                             boardNull |-> cx.boardFile = <<>>,
                             node |-> hit,
                             value |-> IF hit = <<>> THEN <<>>
                                       ELSE property(heapN, heapE, hit[1], QueryProp)] >>
         /\ heapN' = IF hit = <<>> THEN heapN
                     ELSE [heapN EXCEPT ![hit[1]].entries = sortedEntries(heapE, @)]
  /\ UNCHANGED << pstate, ctxs, nctx, appCtx, boardCtx, currCtx, isStable, waiters, heapE,
                  tasks, adds, exists, released, fired, rejected >>

\* ----------------------------------------------------------- specification
\* the documents that can be opened when the extension starts: all of them,
\* all but the board, all but the overlays
InitExists ==
  { [u \in Uris |-> TRUE],
    [u \in Uris |-> u # ApiBoard],
    [u \in Uris |-> u \notin SeqToSet(ApiOverlays)] }

InitWorld ==
  /\ ctxs = [c \in CtxIds |-> NoCtx]
  /\ nctx = 0
  /\ appCtx = <<>>
  /\ boardCtx = <<>>
  /\ currCtx = 0
  /\ isStable = TRUE
  /\ waiters = <<>>
  /\ heapN = EmptyHeap
  /\ heapE = EmptyHeap
  /\ tasks = [t \in TaskIds |-> NoTask]
  /\ adds = [c \in CtxIds |-> NoAdd]
  /\ exists \in InitExists
  /\ events = 0
  /\ released = <<>>
  /\ fired = <<>>
  /\ rejected = {}
  /\ lastQuery = <<>>

Init ==
  /\ InitWorld
  /\ pstate = NoParse

Next ==
  \/ AddContextCall
  \/ \E c \in CtxIds : AddOpenBoard(c)
  \/ \E c \in CtxIds : AddPreBoard(c)
  \/ \E c \in CtxIds, j \in 1..Len(ApiOverlays) : AddOpenOverlay(c, j)
  \/ \E c \in CtxIds, j \in 1..Len(ApiOverlays) : AddPreOverlay(c, j)
  \/ \E t \in TaskIds : ReparseOpenBoard(t)
  \/ \E t \in TaskIds : ReparsePreBoard(t)
  \/ \E t \in TaskIds : ReparseOpenOverlay(t)
  \/ \E t \in TaskIds : ReparsePreOverlay(t)
  \/ \E uri \in EditUris : OnDidChange(uri)
  \/ \E uri \in FocusUris : OnDidChangeTextEditor(uri)
  \/ OnDidChangeNoEditor
  \/ \E c \in CtxIds : RemoveCtxCommand(c)
  \/ \E uri \in DeleteUris : OnDidDeleteFiles(uri)
  \/ InsertOverlays
  \/ SetBoard
  \/ Stable
  \/ Query

Spec == Init /\ [][Next]_vars

\* --------------------------------------------- the parses of one context
\* Parser.addContext with the parses one after the other: the board file
\* (constructed when the context has no file, priority 0), then the overlays
\* (constructed when it has the board file).  `done` holds the scan state
\* each finished parse ended in.
ParseFile(cs, idx, reg, hn, he) ==
  ParseInit(reg, hn, he,
            NewFile(Fid(1, 0, "parse", idx - 1), IF idx = 1 THEN "B" ELSE "O1",
                    IF idx = 1 THEN 0 ELSE 1),
            cs.texts[idx])

StartParse(cs) ==
  [pc |-> "scan", case |-> << cs >>, idx |-> 1,
   P |-> ParseFile(cs, 1, <<>>, EmptyHeap, EmptyHeap), done |-> <<>>]

\* one iteration of `while (state.skipWhitespace())`
ParseStep ==
  /\ pstate.pc = "scan"
  /\ ~ Eof(SkipWs(pstate.P))
  /\ pstate' = [pstate EXCEPT !.P = ParseIter(SkipWs(pstate.P))]
  /\ UNCHANGED world

\* skipWhitespace reaches the end of the file: what follows the loop, and
\* the parse of the next file of the context
ParseFinish ==
  /\ pstate.pc = "scan"
  /\ Eof(SkipWs(pstate.P))
  /\ LET E == ParseEnd(SkipWs(pstate.P))
         cs == pstate.case[1]
     IN  pstate' = IF pstate.idx < Len(cs.texts)
               THEN [pstate EXCEPT !.idx = @ + 1, !.done = Append(@, E),
                               !.P = ParseFile(cs, pstate.idx + 1, E.reg, E.hn, E.he)]
               ELSE [pstate EXCEPT !.pc = "done", !.done = Append(@, E), !.P = E]
  /\ UNCHANGED world

InitParse ==
  /\ InitWorld
  /\ \E cs \in ParseCases : pstate = StartParse(cs)

NextParse ==
  \/ ParseStep
  \/ ParseFinish

SpecParse == InitParse /\ [][NextParse]_vars

\* ----------------------------------------------------------------- Line
\* A line of the preprocessor: the length of its raw text and its macro
\* expansions, each with the raw offset of the macro (start), the length of
\* the macro in the raw text (raw) and the length of the text put in its
\* place (insert), in the order of their starts and not overlapping.
MaxRaw == 5

MaxMacros == 2

MaxInsert == 3

MacroInstances ==
  [start : 0..(MaxRaw - 1), raw : 1..2, insert : 0..MaxInsert]

MacroLists ==
  UNION { [1..n -> MacroInstances] : n \in 0..MaxMacros }

\* MacroInstance.filterOverlapping leaves nothing to drop
Ordered(ms) ==
  \A i \in 1..(Len(ms) - 1) : ms[i].start + ms[i].raw <= ms[i + 1].start

Lines ==
  { line \in [raw : 1..MaxRaw, macros : { m \in MacroLists : Ordered(m) }] :
      line.macros # <<>> =>
         Last(line.macros).start + Last(line.macros).raw <= line.raw }

RECURSIVE Widths(_)
Widths(ms) ==
  IF ms = <<>> THEN 0 ELSE Head(ms).insert - Head(ms).raw + Widths(Tail(ms))

\* Line.length: the length of the expanded text
LineLength(line) == line.raw + Widths(line.macros)

\* Line.rawPos(offset, earliest): the loop of this.macros.find
RECURSIVE RawPosLoop(_, _, _)
RawPosLoop(ms, loc, earliest) ==
  IF ms = <<>> THEN loc
  ELSE IF Head(ms).start > loc THEN loc
  ELSE IF loc < Head(ms).start + Head(ms).insert
  THEN Head(ms).start + (IF earliest THEN 0 ELSE Head(ms).raw)
  ELSE RawPosLoop(Tail(ms), loc + Head(ms).raw - Head(ms).insert, earliest)

\* a rawPos that clamps to the start of the macro whatever is asked for
rawPosStart(line, loc, earliest) == RawPosLoop(line.macros, loc, TRUE)

rawPos(line, loc, earliest) == RawPosLoop(line.macros, loc, earliest)

\* rawPos is asked for the offsets of the expanded text of a line, one after
\* the other, the offset behind the last character included
InitLine ==
  /\ InitWorld
  /\ \E line \in Lines :
        pstate = [pc |-> "line", line |-> line, x |-> 0, earliest |-> <<>>, latest |-> <<>>]

RawPosStep ==
  /\ pstate.pc = "line"
  /\ pstate.x <= LineLength(pstate.line)
  /\ pstate' = [pstate EXCEPT !.x = @ + 1,
                              !.earliest = Append(@, rawPos(pstate.line, pstate.x, TRUE)),
                              !.latest = Append(@, rawPos(pstate.line, pstate.x, FALSE))]
  /\ UNCHANGED world

NextLine == RawPosStep

SpecLine == InitLine /\ [][NextLine]_vars

\* ------------------------------------------------------------------ claims
Registered(c) == c \in SeqToSet(appCtx \o boardCtx)

\* no call of reparse or addContext is working on the context
Quiet(c) == InFlight(World, c) = {} /\ adds[c].pc = "none"

\* C1: at most one reparse of a context is in flight, and no reparse of a
\* context starts while its parsing flag is set.
C1_OneReparseAtATime ==
  [][\A c \in CtxIds :
       ctxs'[c].gen # ctxs[c].gen =>
          ~ ctxs[c].parsing /\ InFlight(World, c) = {}]_vars

\* The files of a context that declare property `name` on the node at `path`,
\* as indices into DTSCtx.files
Declares(f, path, name) ==
  \E i \in 1..Len(f.entries) :
     /\ heapN[heapE[f.entries[i]].node].path = path
     /\ \E k \in 1..Len(heapE[f.entries[i]].props) :
          heapE[f.entries[i]].props[k].name = name

RECURSIVE FilterSeqBy(_, _)
FilterSeqBy(es, path) ==
  IF es = <<>> THEN <<>>
  ELSE IF heapN[heapE[Head(es)].node].path = path
       THEN << Head(es) >> \o FilterSeqBy(Tail(es), path)
       ELSE FilterSeqBy(Tail(es), path)

\* the value the file gives the property: its last declaration in the file
DeclaredValue(f, path, name) ==
  LET es == FilterSeqBy(f.entries, path)
      ps == PropsOf(heapE, es)
      hits == { k \in 1..Len(ps) : ps[k].name = name }
  IN  ps[CHOOSE k \in hits : \A j \in hits : j <= k].val

\* C2: in a context at rest the unique view of a property is the value of the
\* last file, in the order board file, overlays as configured, that declares
\* it on that node.
C2_LastOverlayWins ==
  \A c \in CtxIds :
     (ctxs[c].status = "live" /\ Quiet(c) /\ ~ ctxs[c].parsing) =>
        LET fs == files(ctxs[c])
            who == { i \in 1..Len(fs) : Declares(fs[i], QueryPath, QueryProp) }
            last == CHOOSE i \in who : \A j \in who : j <= i
        IN  (who # {} /\ RegHas(ctxs[c].nodes, QueryPath)) =>
               property(heapN, heapE, RegGet(ctxs[c].nodes, QueryPath), QueryProp)
                  = << DeclaredValue(fs[last], QueryPath, QueryProp) >>

\* the entries of the files of a context
RECURSIVE EntriesOf(_)
EntriesOf(fs) ==
  IF fs = <<>> THEN {} ELSE SeqToSet(Head(fs).entries) \cup EntriesOf(Tail(fs))

\* C3: path uniqueness: two entries of a context's files whose nodes have the
\* same path belong to the same Node object.
C3_PathUniqueness ==
  \A c \in CtxIds :
     \A a, b \in EntriesOf(files(ctxs[c])) :
        heapN[heapE[a].node].path = heapN[heapE[b].node].path =>
           heapE[a].node = heapE[b].node

\* C4: a reparse reads and parses again only the files one of the dirty URIs
\* of its reset belongs to.
C4_OnlyDirtyFilesParsedAgain ==
  \A t \in TaskIds :
     /\ tasks[t].pc \in {"openBoard", "preBoard"} =>
           tasks[t].board[1].uri \in SeqToSet(tasks[t].uris)
     /\ tasks[t].pc \in {"openOv", "preOv"} =>
           tasks[t].ovs[tasks[t].i].uri \in SeqToSet(tasks[t].uris)

\* C5: onChange(ctx) is fired with ctx.parsing false, no reparse of ctx in
\* flight and ctx.boardFile set.
C5_OnChangeWhenConsistent ==
  fired # <<>> =>
     ~ fired[1].parsing /\ fired[1].inflight = 0 /\ ~ fired[1].boardNull

\* C6: no query sees a context between the reset of a reparse and its end.
C6_NoQueryDuringReparse ==
  lastQuery # <<>> =>
     /\ ~ lastQuery[1].parsing
     /\ lastQuery[1].inflight = 0
     /\ ~ lastQuery[1].boardNull

\* C7: while the stable flag is true no context has its parsing flag set and
\* no reparse is in flight.
C7_StableMeansQuiescent ==
  isStable =>
     /\ \A c \in CtxIds : ~ ctxs[c].parsing
     /\ \A t \in TaskIds : tasks[t].pc = "free"

\* C8 as claimed: waiters are resolved in the order in which they called
\* stable().
C8_ResolvedFifo ==
  \A i, j \in 1..Len(released) : i < j => released[i] < released[j]

\* C8 as amended: when a reparse ends, every waiter is resolved at once, the
\* last one to call stable() first.
C8_ResolvedLifo ==
  [][released' # released =>
       LET n == Len(waiters)
       IN  /\ waiters' = <<>>
           /\ Len(released') = Len(released) + n
           /\ \A k \in 1..n : released'[Len(released) + k] = waiters[n + 1 - k]]_vars

\* two callers waited and the later one was resolved first
C8_Witness == Len(released) >= 2 /\ released[1] > released[2]

\* C9: no call of reparse ends in an exception (every call reaches its end,
\* where it clears the parsing flag, sets the stable flag, resolves the
\* waiters and fires onChange).
C9_ReparseCompletes == rejected = {}

\* C10: the current context is never at rest with an edit left in its dirty
\* list.
C10_NoEditLeftBehind ==
  (currCtx # 0 /\ ~ ctxs[currCtx].parsing /\ Quiet(currCtx)) =>
     ctxs[currCtx].dirty = <<>>

\* C11: an edit starts no reparse of a context other than the current one,
\* it appends the URI to the dirty list of every other registered context
\* that has the file (DTSCtx.has at the time of the edit) and leaves the rest
\* of that context alone; and a context that becomes the current one while
\* its dirty list is not empty is reparsed in that same step.
C11_EditMarksOtherContexts ==
  [][/\ \A uri \in EditUris :
          OnDidChange(uri) =>
             \A c \in CtxIds \ {currCtx} :
                /\ ctxs'[c].gen = ctxs[c].gen
                /\ ctxs'[c] = [ctxs[c] EXCEPT !.dirty =
                                 IF Registered(c) /\ ctxHas(ctxs[c], uri)
                                 THEN Append(@, uri) ELSE @]
                /\ InFlight(World, c)' = InFlight(World, c)
     /\ \A c \in CtxIds :
          (currCtx' = c /\ currCtx # c /\ ctxs[c].dirty # <<>>) =>
             /\ ctxs'[c].gen = ctxs[c].gen + 1
             /\ ctxs'[c].dirty = <<>>
             /\ \E t \in TaskIds :
                   /\ tasks[t].pc = "free"
                   /\ tasks'[t].ctx = c
                   /\ tasks'[t].gen = ctxs'[c].gen
                   /\ tasks'[t].uris = ctxs[c].dirty]_vars

\* two edits were recorded in a context that was not the current one, and
\* its first reparse, started when it became the current one, took them
C11_Witness ==
  \E t \in TaskIds :
     /\ tasks[t].pc # "free"
     /\ tasks[t].gen = 1
     /\ Len(tasks[t].uris) = 2
     /\ currCtx = tasks[t].ctx

\* C12: a reparse that began with an empty dirty list ends with the context
\* showing the same diagnostics and registry contents as when it began.
C12_CleanReparseIdempotent ==
  (fired # <<>> /\ fired[1].clean) => fired[1].same

\* ----------------------------------------------------- claims on the parser
\* the finished parses of a context, and what its registry holds
ParseDone(kind) == pstate.pc = "done" /\ pstate.case[1].kind = kind

\* the nodes registered under a path
NodesAt(P, path) == { P.reg[i].nid : i \in { j \in 1..Len(P.reg) : P.reg[j].path = path } }

\* the number of diagnostics with a message in all files parsed so far
RECURSIVE Count(_, _)
Count(s, x) ==
  IF s = <<>> THEN 0 ELSE (IF Head(s) = x THEN 1 ELSE 0) + Count(Tail(s), x)

\* C13: with the board file `foo: node@10 { reg = <0x10 0x20>; };` and the
\* overlay `&foo { status = "disabled"; };` the context holds one Node at path
\* /node@10/ with two entries, one per file, and its unique properties are
\* reg = [0x10, 0x20] and status = "disabled".
C13_NodeAt10Scenario ==
  (ParseDone("scenario") /\ pstate.case[1].arg.form = "flat") =>
     LET P == pstate.P
         at == NodesAt(P, Chars("/node@10/"))
     IN  /\ Cardinality(at) = 1
         /\ \A nid \in at :
               LET es == P.hn[nid].entries
               IN  /\ Len(es) = 2
                   /\ es[1][1] # es[2][1]
                   /\ property(P.hn, P.he, nid, Chars("reg")) =
                        << << [k |-> "array",
                               val |-> << [k |-> "int", val |-> 16, hex |-> TRUE],
                                          [k |-> "int", val |-> 32, hex |-> TRUE] >>] >> >>
                   /\ property(P.hn, P.he, nid, Chars("status")) =
                        << << [k |-> "string", val |-> Chars("disabled")] >> >>

\* C14: in a context at rest, the properties of a reference block `&label {
\* ... }` whose label is declared in an earlier file of the context (the board
\* file or an earlier overlay) are properties of the node found under the
\* canonical path of the node that declares the label.
C14_RefPropertyVisibleByPath ==
  \A c \in CtxIds :
     (ctxs[c].status = "live" /\ Quiet(c) /\ ~ ctxs[c].parsing) =>
        LET fs == files(ctxs[c])
        IN  \A i \in 1..Len(fs) : \A j \in 1..(i - 1) :
              \A e \in SeqToSet(fs[i].entries) : \A d \in SeqToSet(fs[j].entries) :
                 (\E l \in SeqToSet(heapE[d].labels) : heapE[e].ref = "&" \o l) =>
                    LET hit == ctxNodeByPath(ctxs[c].nodes, heapN[heapE[d].node].path)
                    IN  /\ hit # <<>>
                        /\ \A k \in 1..Len(heapE[e].props) :
                              property(heapN, heapE, hit[1], heapE[e].props[k].name) # <<>>

\* the characters of the file behind the cursor
RECURSIVE Left(_, _)
Left(P, line) ==
  IF line > Len(P.lines) THEN 0
  ELSE Len(P.lines[line]) - (IF line = P.line THEN P.col ELSE 0) + Left(P, line + 1)

\* the cursor of Q is behind the cursor of W
Behind(W, Q) == Q.line > W.line \/ (Q.line = W.line /\ Q.col > W.col)

\* the properties of the root node, in the order of their declaration
RootProps(P) ==
  LET at == NodesAt(P, RootPath)
  IN  IF at = {} THEN <<>>
      ELSE PropsOf(P.he, P.hn[CHOOSE nid \in at : TRUE].entries)

\* what an iteration of the scan loop does to the state W it starts in
IterationAdvances(W) ==
  LET Q == ParseIter(W)
  IN  /\ \/ Behind(W, Q) /\ Left(Q, Q.line) < Left(W, W.line)
         \/ W.reqSemi /\ ~ Q.reqSemi /\ Freeze(Q) = Freeze(W)
      /\ Branch(W) = "unexpected" =>
            /\ Count(Q.file.diags, "Unexpected token")
                 = Count(W.file.diags, "Unexpected token") + 1
            /\ Len(Q.acts) = Len(W.acts) + 1
            /\ Last(Q.acts).title = "Delete invalid token"
            /\ Last(Q.acts).at = [line |-> W.line, col |-> W.col, len |-> TokenLen(Rest(W))]
            /\ Freeze(Q) = Freeze(Forward(W, TokenLen(Rest(W))))
            /\ << Q.reg, Q.hn, Q.he, Q.stack >> = << W.reg, W.hn, W.he, W.stack >>

Titles(P) == [i \in 1..Len(P.acts) |-> P.acts[i].title]

\* C16: in a list of property values every gap between two parsed values that
\* has no comma gets exactly one 'Expected comma between property values'
\* diagnostic and one quick fix that inserts the comma; nothing else does.
C16_OneDiagnosticPerGap ==
  ParseDone("list") =>
     LET commas == pstate.case[1].arg.commas
         gaps == Cardinality({ i \in 1..Len(commas) : ~ commas[i] })
     IN  /\ Count(pstate.P.file.diags, "Expected comma between property values") = gaps
         /\ Count(Titles(pstate.P), "Separate values by comma") = gaps

\* C17: for `bad = <1 2` without the closing bracket, whatever follows it,
\* exactly one 'Unterminated expression' diagnostic is pushed and the property
\* keeps the array with the cells parsed so far.
C17_UnterminatedArray ==
  ParseDone("array") =>
     /\ Count(pstate.P.file.diags, "Unterminated expression") = 1
     /\ \E k \in 1..Len(RootProps(pstate.P)) :
           RootProps(pstate.P)[k] =
             [name |-> Chars("bad"),
              val |-> << [k |-> "array",
                          val |-> << [k |-> "int", val |-> 1, hex |-> FALSE],
                                     [k |-> "int", val |-> 2, hex |-> FALSE] >>] >>]

\* C18: a file that ends with d > 0 nodes open gets d 'Unterminated node'
\* diagnostics and a quick fix that inserts the d closing braces, and every
\* entry and property built so far is kept.
C18_UnterminatedNodes ==
  ParseDone("open") =>
     LET P == pstate.P
         d == pstate.case[1].arg.depth
     IN  /\ Count(P.file.diags, "Unterminated node") = d
         /\ \E i \in 1..Len(P.acts) :
               /\ P.acts[i].title = "Close brackets"
               /\ Count(P.acts[i].text, "}") = d
         /\ Len(P.file.entries) = d
         /\ \A i \in 1..d :
               /\ P.he[P.file.entries[i]].props # <<>>
               /\ P.file.entries[i] \in SeqToSet(P.hn[P.he[P.file.entries[i]].node].entries)

\* the labels of a node
NodeLabels(P, nid) ==
  UNION { SeqToSet(P.he[P.hn[nid].entries[i]].labels) : i \in 1..Len(P.hn[nid].entries) }

\* C19: a /delete-node/ that names an existing node sets its tombstone and
\* nothing else: in every state of a parse a node with a tombstone is
\* registered under its path and returned by the lookup by its path and by
\* each of its labels; the directives that name /node/ by label, by name in
\* its parent and by path leave it so, without an 'Unknown node' warning.
C19_DeletedNodeStaysRegistered ==
  /\ pstate.pc # "idle" =>
        LET P == pstate.P
        IN  \A nid \in DOMAIN P.hn :
               P.hn[nid].deleted =>
                  /\ NodesAt(P, P.hn[nid].path) = {nid}
                  /\ ctxNode(P, P.hn[nid].path, <<>>) = << nid >>
                  /\ \A l \in NodeLabels(P, nid) : ctxNode(P, << "&" >> \o l, <<>>) = << nid >>
  /\ (ParseDone("deleteNode") /\ pstate.case[1].arg.node \in {"label", "child", "path"}) =>
        LET P == pstate.P
        IN  /\ \E nid \in NodesAt(P, Chars("/node/")) :
                  /\ P.hn[nid].deleted
                  /\ ctxNode(P, << "&" >> \o Chars("foo"), <<>>) = << nid >>
            /\ Count(P.file.diags, "Unknown node") = 0

C19_Witness ==
  /\ ParseDone("deleteNode")
  /\ pstate.case[1].arg.node = "child"
  /\ \E nid \in NodesAt(pstate.P, Chars("/node/")) : pstate.P.hn[nid].deleted

\* C20: `/delete-property/ p;` inside a node that declares p is taken as the
\* deletion of p and gets no 'Unknown property' warning; the warning is pushed
\* only when the node has no property of that name.
C20_DeletePropertyKnown ==
  ParseDone("deleteProp") =>
     LET how == pstate.case[1].arg.prop
         warned == Count(pstate.P.file.diags, "Unknown property")
     IN  /\ how = "declared" => warned = 0
         /\ how = "undeclared" => warned = 1

\* the properties with a name in a list of properties
Named(ps, name) == SelectSeq(ps, LAMBDA p : p.name = name)

\* the value list `<1>`
ArrayOfOne == << [k |-> "array", val |-> << [k |-> "int", val |-> 1, hex |-> FALSE] >>] >>

\* C21: for `/delete-property/ foo; foo = <1>;` inside one node block, the
\* last value list of foo on the entry of that block is `<1>`, and the unique
\* properties of the node hold exactly one foo, with that value, whether or
\* not foo was declared before the directive.
C21_RedeclaredProperty ==
  ParseDone("redeclare") =>
     LET P == pstate.P
         entry == Last(P.file.entries)
         nid == P.he[entry].node
         foos == Named(P.he[entry].props, Chars("foo"))
     IN  /\ P.hn[nid].path = Ln(<< "/", "n", "/" >>)
         /\ foos # <<>>
         /\ Last(foos).val = ArrayOfOne
         /\ Named(uniqueProperties(P.hn, P.he, nid), Chars("foo"))
              = << [name |-> Chars("foo"), val |-> ArrayOfOne] >>

C21_Witness ==
  /\ ParseDone("redeclare")
  /\ pstate.case[1].arg.how = "board"
  /\ Len(Named(PropsOf(pstate.P.he, pstate.P.hn[pstate.P.he[Last(pstate.P.file.entries)].node].entries),
               Chars("foo"))) = 2

\* C22: an array `<(inner) 2>` keeps one cell for the expression, whatever
\* its text: the value of the expression, or 0 with one 'Unable to evaluate
\* expression' diagnostic when the text cannot be evaluated; the cell behind
\* the expression is kept as well.
C22_ExpressionFallback ==
  ParseDone("expr") =>
     LET P == pstate.P
         arg == pstate.case[1].arg
         v == IF arg.closed THEN eval(ExprText(arg)) ELSE <<>>
         as == Named(RootProps(P), << "a" >>)
         cells == as[1].val[1].val
     IN  /\ Len(as) = 1
         /\ as[1].val[1].k = "array"
         /\ cells # <<>>
         /\ cells[1] = [k |-> "expr", val |-> IF v = <<>> THEN 0 ELSE v[1]]
         /\ v = <<>> => Count(P.file.diags, "Unable to evaluate expression") = 1
         /\ arg.closed => cells = << cells[1], [k |-> "int", val |-> 2, hex |-> FALSE] >>

\* the same for the texts that can be evaluated
C22_Evaluated ==
  (ParseDone("expr") /\ pstate.case[1].arg.closed /\ eval(ExprText(pstate.case[1].arg)) # <<>>)
    => C22_ExpressionFallback

\* what a getter names: a value list that holds something of its shape
Shaped(get, hn, he, entry, p) ==
  LET value == p.val
      some == value # <<>>
      addrCells == ParentCells(hn, he, entry, Chars("#address-cells"), 2)
      sizeCells == ParentCells(hn, he, entry, Chars("#size-cells"), 1)
  IN  CASE get = "arrays" -> some /\ AllOf(value, IsIntArray)
        [] get = "pHandles" ->
             \/ Len(value) = 1 /\ IsPHandleArray(value[1])
             \/ some /\ AllOf(value, IsPHandle)
        [] get = "pHandleArray" -> some /\ AllOf(value, IsArray)
        [] get = "stringArray" -> some /\ AllOf(value, IsString)
        [] get = "entries" ->
             /\ some /\ AllOf(value, IsArray)
             /\ \E i \in 1..Len(value) : value[i].val # <<>> /\ IsPHandle(value[i].val[1])
        [] get = "regs" ->
             /\ some /\ AllOf(value, IsArray)
             /\ \E i \in 1..Len(value) :
                   /\ Len(value[i].val) >= addrCells + sizeCells
                   /\ AllOf(SubSeq(value[i].val, 1, addrCells + sizeCells), IsInt)
        [] get = "nexusMap" ->
             /\ EndsWithMap(p.name)
             /\ some /\ AllOf(value, IsArray)
             /\ \E i \in 1..Len(value[1].val) : IsPHandle(value[1].val[i])
        [] OTHER -> ~ PropertyGet(get, value).absent

\* C23: on every property a parse builds, each typed getter returns, and it
\* returns the absent result unless the value list of the property holds
\* values of the shape the getter names; a property without any value has
\* none of the shapes.
C23_GettersAbsentOffShape ==
  pstate.pc = "done" =>
     LET P == pstate.P
     IN  \A entry \in DOMAIN P.he : \A k \in 1..Len(P.he[entry].props) :
            \A get \in Getters :
               LET p == P.he[entry].props[k]
                   r == Get(get, P.hn, P.he, entry, p)
               IN  /\ r # Unending
                   /\ ~ Shaped(get, P.hn, P.he, entry, p) => r = Absent

\* a text with its whitespace normalised: its brackets and the words between
\* them, in order
RECURSIVE Words(_)
Words(s) ==
  LET n == Run(s, (HexDigit \cup WordChar) \ {"<", ">"})
  IN  IF s = <<>> THEN <<>>
      ELSE IF Head(s) \in SpaceChar THEN Words(Tail(s))
      ELSE IF n = 0 THEN << << Head(s) >> >> \o Words(Tail(s))
      ELSE << SubSeq(s, 1, n) >> \o Words(Drop(s, n))

\* C24: for an array `<...>` of N >= 0 integer literals, decimal or
\* hexadecimal, in any letter case and with or without leading zeros,
\* ArrayValue.toString() of the parsed array is the text of the array with
\* its whitespace normalised.
C24_ArrayRoundTrip ==
  ParseDone("cells") =>
     LET as == Named(RootProps(pstate.P), << "a" >>)
     IN  /\ Len(as) = 1
         /\ Len(as[1].val) = 1
         /\ Words(ArrayValueToString(as[1].val[1])) = Words(CellsText(pstate.case[1].arg))

\* a literal toString gives back: no leading zero, lower case
Canonical(l) ==
  /\ \A i \in 1..Len(l) : l[i] \notin {"A", "B", "C", "D", "E", "F"}
  /\ Len(l) = 1 \/ Head(IF StartsWith(l, << "0", "x" >>) THEN Drop(l, 2) ELSE l) # "0"

\* the same for the arrays of such literals
C24_CanonicalRoundTrip ==
  (ParseDone("cells") /\ \A i \in 1..Len(pstate.case[1].arg.cells) :
                             Canonical(pstate.case[1].arg.cells[i]))
    => C24_ArrayRoundTrip

\* C25: the parse of a file that holds exactly `/ { };` leaves one Node, the
\* root node at path `/`, with one entry that has no property and no child,
\* an empty node stack and no diagnostic.
C25_EmptyRoot ==
  ParseDone("empty") =>
     LET P == pstate.P
         root == NodesAt(P, RootPath)
     IN  /\ Len(P.reg) = 1
         /\ Cardinality(DOMAIN P.hn) = 1
         /\ Cardinality(root) = 1
         /\ \A nid \in root :
               /\ Len(P.hn[nid].entries) = 1
               /\ P.file.entries = P.hn[nid].entries
               /\ P.he[P.hn[nid].entries[1]].props = <<>>
               /\ ~ P.hn[nid].deleted
         /\ DOMAIN P.he = SeqToSet(P.file.entries)
         /\ \A e \in DOMAIN P.he : P.he[e].parent = <<>>
         /\ P.stack = <<>>
         /\ P.file.diags = <<>>
         /\ P.acts = <<>>

C25_Witness ==
  /\ ParseDone("empty")
  /\ pstate.case[1].arg.how = "line"
  /\ Len(pstate.P.file.entries) = 1
  /\ Eof(pstate.P)

\* the registered contexts that were added for a document: the board
\* contexts on it (no setBoard names the document)
CreatedFor(uri) == { c \in SeqToSet(boardCtx) : ctxs[c].board = uri }

\* C26: after any sequence of focus events, overlapping ones included, the
\* parser holds at most one context that was added for a document when it was
\* opened.
C26_OneContextPerDocument ==
  \A uri \in FocusUris \ {NewBoardUri} : Cardinality(CreatedFor(uri)) <= 1

\* a file made by insertOverlay
IsShield(f) == f.uri = ShieldUri

\* the inserted shield files come before the configured overlays, which keep
\* their order
ShieldsFirst(c) ==
  LET ovs == ctxs[c].overlays
      pos(uri) == { i \in 1..Len(ovs) : ovs[i].uri = uri }
  IN  /\ \A i, j \in 1..Len(ovs) : (IsShield(ovs[i]) /\ ~ IsShield(ovs[j])) => i < j
      /\ \A a, b \in 1..Len(ApiOverlays) :
            a < b => \A i \in pos(ApiOverlays[a]), j \in pos(ApiOverlays[b]) : i < j

\* a property that a shield and configured overlays declare has the value of
\* a configured overlay
OverlayOverShield(c) ==
  LET ovs == ctxs[c].overlays
      by(shield) == { i \in 1..Len(ovs) : /\ IsShield(ovs[i]) = shield
                                          /\ Declares(ovs[i], QueryPath, QueryProp) }
  IN  (by(TRUE) # {} /\ by(FALSE) # {} /\ RegHas(ctxs[c].nodes, QueryPath)) =>
         \E j \in by(FALSE) :
            property(heapN, heapE, RegGet(ctxs[c].nodes, QueryPath), QueryProp)
               = << DeclaredValue(ovs[j], QueryPath, QueryProp) >>

\* C27: in a context at rest on which insertOverlays was called, the shield
\* files are in front of the configured overlays in ctx.overlays, the
\* configured overlays are in their order, and a property declared by a
\* shield and by a configured overlay has the value of the configured
\* overlay.
C27_ShieldsBeforeOverlays ==
  \A c \in CtxIds :
     (ctxs[c].status = "live" /\ Quiet(c) /\ ~ ctxs[c].parsing) =>
        ShieldsFirst(c) /\ OverlayOverShield(c)

\* C28: once a context is removed (onDelete fired for it), no onChange is
\* fired for it: the reparse that was in flight at the removal ends without
\* the event.
C28_NoChangeAfterDelete ==
  fired # <<>> => ~ fired[1].removed

\* the nodes made for reference blocks on `ref`
Placeholders(P, ref) == { nid \in DOMAIN P.hn : P.hn[nid].path = ref }

\* the iteration that starts in W opens a reference block on a label or path
\* that ctx.node does not find
OpensUnknownRef(W) ==
  LET s == Rest(W)
      ref == SubSeq(s, 1, RefLen(s))
  IN  /\ Branch(W) = "ref"
      /\ StartsWith(Rest(SkipWs(Take(W, RefLen(s)))), << "{" >>)
      /\ ctxNode(W, ref, <<>>) = <<>>

\* what that iteration does: one error, one more stack level whose entry
\* belongs to a placeholder node, and no second placeholder for the reference
UnknownRefIteration(W) ==
  LET Q == ParseIter(W)
      ref == SubSeq(Rest(W), 1, RefLen(Rest(W)))
      top == Q.he[Last(Q.stack)]
  IN  /\ Count(Q.file.diags, "Unknown label") = Count(W.file.diags, "Unknown label") + 1
      /\ Len(Q.file.diags) = Len(W.file.diags) + 1
      /\ Q.stack = Append(W.stack, Last(Q.stack))
      /\ top.ref = ref /\ Q.hn[top.node].path = ref
      /\ Last(Q.stack) \in SeqToSet(Q.hn[top.node].entries)
      /\ Q.reg = W.reg
      /\ Placeholders(W, ref) # {} => Placeholders(Q, ref) = Placeholders(W, ref)

\* the property p and the child node n of the first block are recorded on a
\* placeholder
PlaceholderRecords(P) ==
  \E nid \in Placeholders(P, Ln(<< "&", "bar" >>)) :
     /\ Named(uniqueProperties(P.hn, P.he, nid), << "p" >>) # <<>>
     /\ \E e \in DOMAIN P.he :
           /\ P.he[e].parent # <<>>
           /\ P.he[P.he[e].parent[1]].node = nid
           /\ P.hn[P.he[e].node].path = Ln(<< "&", "bar", "n", "/" >>)

\* C29: a reference block on a label that is not bound in the context gives
\* one 'Unknown label' error and pushes one stack level, whose entry belongs
\* to a placeholder node that records the properties and child entries of the
\* block; a second block on the same unknown label uses the same placeholder
\* and makes no other node.
C29_UnknownLabelPlaceholder ==
  /\ (pstate.pc = "scan" /\ ~ Eof(SkipWs(pstate.P)) /\ OpensUnknownRef(SkipWs(pstate.P)))
        => UnknownRefIteration(SkipWs(pstate.P))
  /\ (ParseDone("unknownRef") /\ pstate.case[1].arg.how # "bound")
        => PlaceholderRecords(pstate.P)

\* the state in which the first token behind P that is no comment is scanned
RECURSIVE AfterComments(_)
AfterComments(P) ==
  LET S == SkipWs(P)
  IN  IF ~ Eof(S) /\ Branch(S) \in {"blockComment", "comment"}
      THEN AfterComments(ParseIter(S))
      ELSE S

\* what the iteration that starts in W at a `}` does, and what the iteration
\* on the token that follows the brace does
CloseIteration(W) ==
  LET Q == ParseIter(W)
      N == AfterComments(Q)
      R == ParseIter(N)
      unexpected(P) == Count(P.file.diags, "Unexpected closing bracket")
      missing(P) == Count(P.file.diags, "Missing semicolon")
  IN  /\ Q.reqSemi /\ Freeze(Q) = Freeze(Forward(W, 1))
      /\ W.stack # <<>> =>
            /\ Q.stack = Front(W.stack)
            /\ unexpected(Q) = unexpected(W) /\ Q.acts = W.acts
      /\ W.stack = <<>> =>
            /\ Q.stack = <<>>
            /\ unexpected(Q) = unexpected(W) + 1
            /\ Q.acts = Append(W.acts, [title |-> "Delete unnecessary closing bracket",
                                        text |-> <<>>,
                                        at |-> [line |-> W.line, col |-> W.col, len |-> 1]])
      /\ << Q.reg, Q.hn, Q.he >> = << W.reg, W.hn, W.he >>
      /\ (~ Eof(N) /\ StartsWith(Rest(N), << ";" >>)) =>
            /\ R = [Take(N, 1) EXCEPT !.reqSemi = FALSE]
            /\ N.file.diags = Q.file.diags /\ N.acts = Q.acts
      /\ (~ Eof(N) /\ ~ StartsWith(Rest(N), << ";" >>)) =>
            /\ missing(R) = missing(Q) + 1
            /\ R.file.diags = Append(Q.file.diags, "Missing semicolon")
            /\ R.acts = Append(Q.acts, [title |-> "Add semicolon", text |-> << ";" >>,
                                        at |-> PrevEnd(N)])
            /\ ~ R.reqSemi
            /\ [R EXCEPT !.file.diags = N.file.diags, !.acts = N.acts, !.reqSemi = TRUE] = N
            /\ Branch(R) \notin {"semicolon", "blockComment", "comment"}

\* C30: a closing brace pops exactly one entry of a non-empty node stack; on
\* an empty stack it leaves the stack empty and gives 'Unexpected closing
\* bracket' with a quick fix that deletes the brace.  In both cases, when the
\* next token is not `;`, exactly one 'Missing semicolon' with a quick fix
\* that inserts `;` is given, nothing of the token is consumed and the next
\* iteration scans it with requireSemicolon cleared.
C30_ClosingBrace ==
  (pstate.pc = "scan" /\ ~ Eof(SkipWs(pstate.P))
     /\ Branch(SkipWs(pstate.P)) = "closingBrace")
     => CloseIteration(SkipWs(pstate.P))

\* a `}` on an empty stack followed by a token that is not `;` has been
\* scanned, and so has the check for the semicolon
C30_Witness ==
  /\ pstate.pc = "scan" /\ pstate.case[1].kind = "close"
  /\ pstate.case[1].arg.depth = 0 /\ pstate.case[1].arg.next = "name"
  /\ pstate.P.file.diags = << "Unexpected closing bracket", "Missing semicolon" >>
  /\ Len(pstate.P.acts) = 2
  /\ pstate.P.acts[1].title = "Delete unnecessary closing bracket"
  /\ pstate.P.acts[2].title = "Add semicolon"
  /\ pstate.P.stack = <<>> /\ ~ pstate.P.reqSemi

\* the quick fixes of a finished parse with the title `title`
Titled(acts, title) == SelectSeq(acts, LAMBDA a : a.title = title)

\* the length of what stands between `a = ` and the number
BareHead(before) == CASE before = "none" -> 0 [] before = "comma" -> 5 [] OTHER -> 4

\* C31: a number without brackets among the values of a property gives
\* exactly one 'Missing < > brackets around number' error and one quick fix
\* that replaces the number by `< number >`; the property keeps the values in
\* front of the number and gets none for the number or for what follows it.
C31_BareNumber ==
  ParseDone("bare") =>
    LET arg == pstate.case[1].arg
        P == pstate.P
        fixes == Titled(P.acts, "Add brackets")
    IN  /\ Count(P.file.diags, "Missing < > brackets around number") = 1
        /\ arg.after = "none" => P.file.diags = << "Missing < > brackets around number" >>
        /\ Len(fixes) = 1
        /\ fixes[1].text = << "<", " " >> \o arg.lit \o << " ", ">" >>
        /\ fixes[1].at = [line |-> 2, col |-> 4 + BareHead(arg.before), len |-> Len(arg.lit)]
        /\ Named(RootProps(P), << "a" >>)
              = << [name |-> << "a" >>,
                    val |-> IF arg.before = "none" THEN <<>> ELSE ArrayOfOne] >>

\* `a = <1> 0x1F, <2>;` has been parsed
C31_Witness ==
  /\ ParseDone("bare")
  /\ pstate.case[1].arg = [lit |-> << "0", "x", "1", "F" >>, before |-> "blank",
                           after |-> "comma"]
  /\ Len(Titled(pstate.P.acts, "Add brackets")) = 1
  /\ Named(RootProps(pstate.P), << "a" >>) # <<>>

\* where the characters of the expanded text of a line come from: for every
\* offset, the end of the line included, the raw offset of the character or
\* the macro whose expansion holds it
RECURSIVE Origins(_, _, _)
Origins(len, ms, r) ==
  LET copies(m) == [i \in 1..m.insert |-> [in |-> TRUE, start |-> m.start, raw |-> m.raw]]
      plain == << [in |-> FALSE, start |-> r, raw |-> 0] >>
  IN  IF ms # <<>> /\ Head(ms).start = r
      THEN copies(Head(ms)) \o Origins(len, Tail(ms), r + Head(ms).raw)
      ELSE IF r = len THEN plain
      ELSE plain \o Origins(len, ms, r + 1)

C33_ReparseLikeAddContext ==
  (fired # <<>> /\ fired[1].first /\ fired[1].inflight = 0) =>
     fired[1].same /\ fired[1].sameFiles

\* C34: in a context at rest the priorities of the files strictly increase
\* along the board file and the overlays in their order.
C34_PrioritiesIncrease ==
  \A c \in CtxIds :
     (ctxs[c].status = "live" /\ Quiet(c) /\ ~ ctxs[c].parsing) =>
        LET fs == files(ctxs[c])
        IN  \A i, j \in 1..Len(fs) : i < j => fs[i].priority < fs[j].priority

\* C36: a step of addContext that does not complete the context changes
\* neither the application contexts nor the board contexts and fires no
\* onChange, and the context it was adding is in neither list.
C36_FailedAddContext ==
  [][\A c \in CtxIds :
       (/\ adds'[c] # adds[c] \/ ctxs'[c].status # ctxs[c].status
        /\ ctxs'[c].status \in {"adding", "failed"}) =>
          /\ appCtx' = appCtx
          /\ boardCtx' = boardCtx
          /\ fired' = fired
          /\ c \notin SeqToSet(appCtx' \o boardCtx')]_vars

\* the four ways to fail: nothing given, no board determined, the board not
\* opened, none of the overlays opened
FailedAt(c) ==
  IF ctxs[c].status # "failed" THEN "none"
  ELSE IF ctxs[c].boardFile # <<>> THEN "overlays"
  ELSE IF ctxs[c].board # "" THEN "boardDoc"
  ELSE "board"

C36_Witness ==
  /\ \E c \in CtxIds : FailedAt(c) = "overlays"
  /\ \E c \in CtxIds : FailedAt(c) \in {"board", "boardDoc"}

\* C35: while every document can be opened, a registered context at rest has
\* a board file and holds each configured overlay exactly once.
Occurrences(ovs, uri) == Cardinality({ i \in 1..Len(ovs) : ovs[i].uri = uri })

C35_BoardAndOverlaysKept ==
  \A c \in CtxIds :
     (/\ ctxs[c].status = "live"
      /\ Quiet(c)
      /\ \A u \in Uris : exists[u]) =>
        /\ ctxs[c].boardFile # <<>>
        /\ ctxs[c].name = ApiName =>
              \A j \in 1..Len(ApiOverlays) :
                 Occurrences(ctxs[c].overlays, ApiOverlays[j]) = 1
        /\ Occurrences(ctxs[c].overlays, ShieldUri) = ctxs[c].inserted

\* C37: a query of a node's property (an event that changes no context, no
\* task and no entry) leaves the entries of every node in their order.
C37_QueryKeepsEntries ==
  [][(/\ events' # events
      /\ UNCHANGED << ctxs, tasks, adds, heapE, exists, currCtx, waiters >>) =>
        \A n \in DOMAIN heapN : heapN'[n].entries = heapN[n].entries]_vars

\* the results of the regs getter on the reg properties of a parsed file
RegsResults(P) ==
  UNION { { Get("regs", P.hn, P.he, entry, P.he[entry].props[k]) :
              k \in { i \in 1..Len(P.he[entry].props) :
                        P.he[entry].props[i].name = Chars("reg") } } :
          entry \in DOMAIN P.he }

\* C38: under a parent that declares #address-cells = a and #size-cells = s,
\* both from 0 on, the regs getter of a reg property returns, and each entry
\* it returns holds a address cells and s size cells.
C38_RegsTerminates ==
  ParseDone("regs") =>
     \A r \in RegsResults(pstate.P) :
        /\ r # Unending
        /\ ~ r.absent =>
              \A i \in 1..Len(r.val) :
                 /\ Len(r.val[i].addrs) = pstate.case[1].arg.addrCells
                 /\ Len(r.val[i].sizes) = pstate.case[1].arg.sizeCells

====
